---- MODULE Spec2Model ----
(***************************************************************************)
(* Model of the tapsilat-rust SDK: the input validators                    *)
(* (src/src/modules/validators.rs), the configuration and client           *)
(* construction (src/src/config.rs, src/src/client.rs) and the request     *)
(* executor TapsilatClient::make_request.                                   *)
(*                                                                         *)
(* Strings are sequences of characters; a character is a one-token string. *)
(* Every validator is a pure function, modelled as an operator that        *)
(* follows the Rust code statement by statement.  Each validator has its   *)
(* own specification: Init draws the argument from a bounded family and    *)
(* the action applies the validator to it.                                 *)
(***************************************************************************)
EXTENDS Integers, Sequences, FiniteSets, TLC

VARIABLES
    op,               \* the function under call ("none" when idle)
    input,            \* its argument
    ret,              \* its return value (NoRet while the call is pending)
    origin,           \* the accepted argument `input` was derived from, or NoOrigin
    overflow_checks,  \* the build: TRUE = integer overflow panics (debug profile),
                      \* FALSE = integer overflow wraps (release profile)
    config,           \* the Config value under construction (NoConfig when none)
    client,           \* the constructed TapsilatClient (NoClient when none)
    wire,             \* the HTTP requests issued so far, in order
    reply,            \* the server's answer to the request in flight (NoReply when none)
    outcome           \* the result of the last constructor / operation call

valVars == <<op, input, ret, origin, overflow_checks>>
cliVars == <<config, client, wire, reply, outcome>>
vars == <<valVars, cliVars>>

(***************************************************************************)
(* Result values.                                                          *)
(***************************************************************************)
NoRet == [kind |-> "NoRet", error |-> "", message |-> "", value |-> <<>>]
Ok(v) == [kind |-> "Ok", error |-> "", message |-> "", value |-> v]
ValidationError(msg) ==
    [kind |-> "Err", error |-> "ValidationError", message |-> msg, value |-> <<>>]
ConfigError(msg) ==
    [kind |-> "Err", error |-> "ConfigError", message |-> msg, value |-> <<>>]
\* A Rust panic: the call does not return a Result at all.
Panic(msg) == [kind |-> "Panic", error |-> "", message |-> msg, value |-> <<>>]

NoOrigin == <<"-none-">>

(***************************************************************************)
(* Characters and the std string helpers the validators use.               *)
(***************************************************************************)
Digits == {"0", "1", "2", "3", "4", "5", "6", "7", "8", "9"}
\* char::is_whitespace holds of these (space, tab, line feed); str::trim
\* removes them at both ends, str::replace(" ", "") removes the space only.
Whitespace == {" ", "\t", "\n"}
\* A character outside ASCII: U+00E9, two bytes in UTF-8.
NonAscii == "U+00E9"

is_ascii_digit(c) == c \in Digits

to_digit(c) ==
    CASE c = "0" -> 0 [] c = "1" -> 1 [] c = "2" -> 2 [] c = "3" -> 3
      [] c = "4" -> 4 [] c = "5" -> 5 [] c = "6" -> 6 [] c = "7" -> 7
      [] c = "8" -> 8 [] c = "9" -> 9

from_digit(d) ==
    CASE d = 0 -> "0" [] d = 1 -> "1" [] d = 2 -> "2" [] d = 3 -> "3"
      [] d = 4 -> "4" [] d = 5 -> "5" [] d = 6 -> "6" [] d = 7 -> "7"
      [] d = 8 -> "8" [] d = 9 -> "9"

\* str::len counts bytes, not characters.
len_utf8(c) == IF c = NonAscii THEN 2 ELSE 1

RECURSIVE str_len(_)
str_len(s) == IF s = <<>> THEN 0 ELSE len_utf8(Head(s)) + str_len(Tail(s))

RECURSIVE trim_start(_)
trim_start(s) ==
    IF s # <<>> /\ Head(s) \in Whitespace THEN trim_start(Tail(s)) ELSE s

RECURSIVE trim_end(_)
trim_end(s) ==
    IF s # <<>> /\ s[Len(s)] \in Whitespace
    THEN trim_end(SubSeq(s, 1, Len(s) - 1))
    ELSE s

trim(s) == trim_end(trim_start(s))

\* str::replace(pat, "") for a one-character pattern.
remove_char(s, c) == SelectSeq(s, LAMBDA x : x # c)

\* str::starts_with
starts_with(s, p) == Len(s) >= Len(p) /\ SubSeq(s, 1, Len(p)) = p

\* str::strip_prefix(...).unwrap() after starts_with has held
strip_prefix(s, p) == SubSeq(s, Len(p) + 1, Len(s))

all_ascii_digits(s) == \A i \in 1..Len(s) : is_ascii_digit(s[i])

(***************************************************************************)
(* Validators::validate_identity_number.                                   *)
(* digits is a Vec<u8>; sum_odd, sum_even and the checksum are u8 values.  *)
(* digits[k] of the code is digits[k + 1] here.                            *)
(***************************************************************************)
U8Modulus == 256

digits_of(identity) == [i \in 1..Len(identity) |-> to_digit(identity[i])]

sum_odd_of(digits) == digits[1] + digits[3] + digits[5] + digits[7] + digits[9]
sum_even_of(digits) == digits[2] + digits[4] + digits[6] + digits[8]

\* sum_odd * 7 before it is stored in a u8
product_of(digits) == sum_odd_of(digits) * 7

\* (sum_odd * 7) as the u8 the wrapping build keeps
wrapped_product_of(digits) == product_of(digits) % U8Modulus

\* the operands of the u8 subtraction, as an integer: the value
\* sum_odd * 7 - sum_even has before it is stored in a u8
difference_of(digits, checks) ==
    (IF checks THEN product_of(digits) ELSE wrapped_product_of(digits))
        - sum_even_of(digits)

\* true when the u8 arithmetic of line 112 leaves 0..255
checksum_overflows(digits) ==
    \/ product_of(digits) >= U8Modulus
    \/ product_of(digits) - sum_even_of(digits) < 0

check_digit_10_of(digits) ==
    (difference_of(digits, FALSE) % U8Modulus) % 10

total_sum_of(digits) ==
    digits[1] + digits[2] + digits[3] + digits[4] + digits[5]
        + digits[6] + digits[7] + digits[8] + digits[9] + digits[10]

\* a mutation of check_digit_11_of: the second check digit is taken as given
check_digit_11_unchecked(digits) == digits[11]

check_digit_11_of(digits) == (total_sum_of(digits) % U8Modulus) % 10

validate_identity_number(identity0, checks) ==
    LET identity == trim(identity0) IN
    IF str_len(identity) # 11
    THEN ValidationError("Identity number must be 11 digits")
    ELSE IF ~ all_ascii_digits(identity)
    THEN ValidationError("Identity number must contain only digits")
    ELSE LET digits == digits_of(identity) IN
         IF digits[1] = 0
         THEN ValidationError("Identity number cannot start with 0")
         ELSE IF checks /\ product_of(digits) >= U8Modulus
         THEN Panic("attempt to multiply with overflow")
         ELSE IF checks /\ difference_of(digits, checks) < 0
         THEN Panic("attempt to subtract with overflow")
         ELSE IF check_digit_10_of(digits) # digits[10]
         THEN ValidationError("Invalid identity number checksum")
         ELSE IF check_digit_11_of(digits) # digits[11]
         THEN ValidationError("Invalid identity number checksum")
         ELSE Ok(<<>>)

(***************************************************************************)
(* JSON values (serde_json::Value).  Every value is a record of the same   *)
(* shape; only the fields of its type are meaningful.                      *)
(***************************************************************************)
JNull == [type |-> "null", str |-> "", items |-> <<>>, members |-> <<>>]
JBool(b) == [type |-> "bool", str |-> b, items |-> <<>>, members |-> <<>>]
JNumber(n) == [type |-> "number", str |-> n, items |-> <<>>, members |-> <<>>]
JString(t) == [type |-> "string", str |-> t, items |-> <<>>, members |-> <<>>]
JArray(xs) == [type |-> "array", str |-> "", items |-> xs, members |-> <<>>]
\* members: a function from the keys to the values
JObject(m) == [type |-> "object", str |-> "", items |-> <<>>, members |-> m]

\* Value::index(&str): Null for a missing key and for a value that is no object
json_index(v, key) ==
    IF v.type = "object" /\ key \in DOMAIN v.members THEN v.members[key] ELSE JNull

\* Value::as_str
json_is_str(v) == v.type = "string"

(***************************************************************************)
(* Idle values of the state.                                               *)
(***************************************************************************)
NoConfig == [api_key |-> "-none-", base_url |-> <<"-none-">>, timeout |-> 0]
\* Option<Duration>: None, and Some(Duration::from_secs(secs))
NoTimeout == [set |-> FALSE, secs |-> 0]
SomeTimeout(secs) == [set |-> TRUE, secs |-> secs]

NoAgent ==
    [http_status_as_error |-> FALSE, max_redirects |-> 0, timeout_global |-> NoTimeout]
NoClient == [config |-> NoConfig, http_client |-> NoAgent, built |-> FALSE]
NoReply == [status |-> 0, body |-> <<>>, readable |-> FALSE]
NoOutcome ==
    [op |-> "none", kind |-> "NoRet", error |-> "", message |-> "", status_code |-> 0,
     value |-> JNull, raw |-> <<>>, arg |-> NoConfig, requests |-> 0]

ClientIdle ==
    /\ config = NoConfig
    /\ client = NoClient
    /\ wire = <<>>
    /\ reply = NoReply
    /\ outcome = NoOutcome

ValidatorsIdle ==
    /\ op = "none"
    /\ input = <<>>
    /\ ret = NoRet
    /\ origin = NoOrigin
    /\ overflow_checks \in BOOLEAN

(***************************************************************************)
(* Argument families.                                                      *)
(***************************************************************************)
\* at most MaxPad whitespace characters on each side of an argument
MaxPad == 1

\* all sequences over S of length 0..n
SeqsUpTo(S, n) == UNION {[1..k -> S] : k \in 0..n}

Pads == SeqsUpTo(Whitespace, MaxPad)
Padded(s) == {l \o s \o r : l \in Pads, r \in Pads}

\* one character of s replaced by a character that is no digit
Substituted(s, C) == {[s EXCEPT ![i] = c] : i \in 1..Len(s), c \in C}

\* every prefix of s, and s followed by one more digit
Resized(s) == {SubSeq(s, 1, k) : k \in 0..Len(s)} \cup {Append(s, "7")}

Text(digitSeq) == [i \in 1..Len(digitSeq) |-> from_digit(digitSeq[i])]

\* 11-digit strings: d0 in {0,1,9}, the other odd-position digits and two of
\* the even-position digits in {0,9}, both check digits free.  sum_odd
\* ranges over 0..45 and sum_even over 0..18, so that sum_odd * 7 exceeds
\* 255 for some members and falls below sum_even for others.
IdentityDigitStrings ==
    {Text(<<d0, d1, d2, d3, d4, 0, d6, 0, d8, d9, d10>>) :
        d0 \in {0, 1, 9}, d1 \in {0, 9}, d2 \in {0, 9}, d3 \in {0, 9},
        d4 \in {0, 9}, d6 \in {0, 9}, d8 \in {0, 9},
        d9 \in 0..9, d10 \in 0..9}

\* 10000000146 satisfies both checksums, 11111111111 (the number the
\* repository's tests put in a buyer) does not.
IdentityBases ==
    {<<"1","0","0","0","0","0","0","0","1","4","6">>,
     <<"1","1","1","1","1","1","1","1","1","1","1">>}

\* strings that are no 11 digits: another length, a character that is no
\* digit
IdentityShapes ==
    LET resized == UNION {Resized(b) : b \in IdentityBases}
    IN resized \cup
       UNION {Substituted(s, {"a", "+", " ", NonAscii}) :
                 s \in {r \in resized : Len(r) >= 10}}

(***************************************************************************)
(* Specification of validate_identity_number: the argument is drawn from   *)
(* IdentityInputs, the build from the two profiles; ValidateIdentity calls *)
(* the function; MutateIdentity takes an accepted argument and changes one *)
(* of its digits, for the next call.                                       *)
(***************************************************************************)
InitIdentity ==
    /\ op = "validate_identity_number"
    /\ \/ input \in IdentityDigitStrings
       \/ \E shape \in IdentityShapes : input \in Padded(shape)
    /\ ret = NoRet
    /\ origin = NoOrigin
    /\ overflow_checks \in BOOLEAN
    /\ ClientIdle

ValidateIdentity ==
    /\ op = "validate_identity_number"
    /\ ret = NoRet
    /\ ret' = validate_identity_number(input, overflow_checks)
    /\ UNCHANGED <<op, input, origin, overflow_checks, cliVars>>

MutateIdentity ==
    /\ op = "validate_identity_number"
    /\ ret.kind = "Ok"
    /\ origin = NoOrigin
    /\ \E i \in 1..Len(input) :
         /\ input[i] \in Digits
         /\ \E d \in Digits \ {input[i]} :
              input' = [input EXCEPT ![i] = d]
    /\ origin' = input
    /\ ret' = NoRet
    /\ UNCHANGED <<op, overflow_checks, cliVars>>

NextIdentity == ValidateIdentity \/ MutateIdentity

SpecIdentity == InitIdentity /\ [][NextIdentity]_vars

(***************************************************************************)
(* The identity number the specification describes, over the integers.     *)
(***************************************************************************)
IsIdentityNumber(s) ==
    LET t == trim(s) IN
    /\ Len(t) = 11
    /\ \A i \in 1..11 : t[i] \in Digits
    /\ LET d == [i \in 0..10 |-> to_digit(t[i + 1])] IN
       /\ d[0] # 0
       /\ d[9] = ((d[0] + d[2] + d[4] + d[6] + d[8]) * 7
                    - (d[1] + d[3] + d[5] + d[7])) % 10
       /\ d[10] = (d[0] + d[1] + d[2] + d[3] + d[4] + d[5] + d[6] + d[7]
                    + d[8] + d[9]) % 10

IsValidationError(r) == r.kind = "Err" /\ r.error = "ValidationError"

\* C1: validate_identity_number returns Ok exactly for the strings that,
\* trimmed, are 11 digits with a non-zero first digit and both check digits
\* as computed over the unbounded integers; every other string yields a
\* ValidationError.
C1_OkIffIdentityNumber ==
    (op = "validate_identity_number" /\ ret # NoRet) =>
        /\ (ret.kind = "Ok") <=> IsIdentityNumber(input)
        /\ (~ IsIdentityNumber(input)) => IsValidationError(ret)

\* The argument passed the length, digit and first-digit checks, so the
\* call reaches the checksum computation.
ReachesChecksum(s) ==
    LET t == trim(s) IN
    /\ str_len(t) = 11
    /\ all_ascii_digits(t)
    /\ t[1] # "0"

\* C2: no validator call faults: the call returns Ok or a ValidationError,
\* and for every 11-digit argument with a non-zero first digit the
\* intermediate values sum_odd * 7 and sum_odd * 7 - sum_even lie in 0..255.
C2_NoFault ==
    (op = "validate_identity_number" /\ ret # NoRet) =>
        /\ ret.kind = "Ok" \/ IsValidationError(ret)
        /\ ReachesChecksum(input) =>
             LET digits == digits_of(trim(input)) IN
             /\ product_of(digits) \in 0..255
             /\ product_of(digits) - sum_even_of(digits) \in 0..255

\* input differs from origin in exactly one position, digit for digit
SingleDigitMutation(a, b) ==
    /\ Len(a) = Len(b)
    /\ Cardinality({i \in 1..Len(a) : a[i] # b[i]}) = 1
    /\ \A i \in 1..Len(a) : a[i] # b[i] => (a[i] \in Digits /\ b[i] \in Digits)

gsm_cleaned_spaces_only(gsm0) == remove_char(trim(gsm0), " ")

\* line 16: gsm.trim().replace(" ", "").replace("-", "")
gsm_cleaned(gsm0) == remove_char(remove_char(trim(gsm0), " "), "-")

\* a mutation of gsm_normalized: the prefix 90 without a plus sign stays
gsm_normalized_without_90(gsm) ==
    IF starts_with(gsm, <<"+", "9", "0">>) THEN strip_prefix(gsm, <<"+", "9", "0">>)
    ELSE IF starts_with(gsm, <<"0">>) THEN strip_prefix(gsm, <<"0">>)
    ELSE gsm

\* lines 19-27: at most one country-code prefix is removed
gsm_normalized(gsm) ==
    IF starts_with(gsm, <<"+", "9", "0">>) THEN strip_prefix(gsm, <<"+", "9", "0">>)
    ELSE IF starts_with(gsm, <<"9", "0">>) THEN strip_prefix(gsm, <<"9", "0">>)
    ELSE IF starts_with(gsm, <<"0">>) THEN strip_prefix(gsm, <<"0">>)
    ELSE gsm

\* a mutation of gsm_digits_only: one digit is enough
gsm_any_digit(normalized) == \E i \in 1..Len(normalized) : is_ascii_digit(normalized[i])

\* line 43: normalized.chars().all(|c| c.is_ascii_digit())
gsm_digits_only(normalized) == all_ascii_digits(normalized)

validate_gsm(gsm0) ==
    LET gsm == gsm_cleaned(gsm0)
        normalized == gsm_normalized(gsm)
    IN IF str_len(normalized) # 10
       THEN ValidationError("GSM number must be 10 digits long")
       ELSE IF ~ starts_with(normalized, <<"5">>)
       THEN ValidationError("Turkish mobile numbers must start with 5")
       ELSE IF ~ gsm_digits_only(normalized)
       THEN ValidationError("GSM number must contain only digits")
       ELSE Ok(<<"9", "0">> \o normalized)

\* at most MaxSeparators spaces or hyphens inserted into an argument
MaxSeparators == 1

\* s with a space or a hyphen inserted at one place
OneSeparator(s) ==
    {SubSeq(s, 1, k) \o <<c>> \o SubSeq(s, k + 1, Len(s)) :
        k \in 0..Len(s), c \in {" ", "-"}}

RECURSIVE Separated(_, _)
\* s with up to n spaces or hyphens inserted
Separated(s, n) ==
    IF n = 0 THEN {s}
    ELSE {s} \cup UNION {OneSeparator(t) : t \in Separated(s, n - 1)}

\* national numbers 5ab1234567 with a, b in {0, 5, 9}
NationalNumbers ==
    {<<"5", from_digit(a), from_digit(b), "1", "2", "3", "4", "5", "6", "7">> :
        a \in {0, 5, 9}, b \in {0, 5, 9}}

GsmProbe == <<"5", "5", "5", "1", "2", "3", "4", "5", "6", "7">>

\* the prefixes the validator knows, and some it does not
GsmPrefixes ==
    {<<>>, <<"0">>, <<"9", "0">>, <<"+", "9", "0">>,
     <<"+">>, <<"+", "9">>, <<"0", "0">>, <<"9", "0", "9", "0">>}

\* bodies that are no national number: another first digit, a character
\* that is no digit, another length
GsmBadBodies ==
    {[GsmProbe EXCEPT ![1] = c] : c \in {"4", "0", "9"}}
        \cup {[GsmProbe EXCEPT ![i] = c] :
                 i \in {1, 5, 10}, c \in {"a", "+", "\t", NonAscii}}
        \cup Resized(GsmProbe)
        \cup {SubSeq(GsmProbe, 1, 8) \o <<NonAscii>>,
              <<"9", "0">> \o SubSeq(GsmProbe, 1, 8)}

GsmShapes ==
    {p \o b : p \in GsmPrefixes, b \in NationalNumbers \cup GsmBadBodies}


(***************************************************************************)
(* Specification of validate_gsm.  RevalidateGsm feeds an Ok value back    *)
(* into the validator.                                                     *)
(***************************************************************************)
InitGsm ==
    /\ op = "validate_gsm"
    /\ \E shape \in GsmShapes :
         \/ input \in Separated(shape, MaxSeparators)
         \/ input \in Padded(shape)
    /\ ret = NoRet
    /\ origin = NoOrigin
    /\ overflow_checks \in BOOLEAN
    /\ ClientIdle

ValidateGsm ==
    /\ op = "validate_gsm"
    /\ ret = NoRet
    /\ ret' = validate_gsm(input)
    /\ UNCHANGED <<op, input, origin, overflow_checks, cliVars>>

RevalidateGsm ==
    /\ op = "validate_gsm"
    /\ ret.kind = "Ok"
    /\ origin = NoOrigin
    /\ origin' = input
    /\ input' = ret.value
    /\ ret' = NoRet
    /\ UNCHANGED <<op, overflow_checks, cliVars>>

NextGsm == ValidateGsm \/ RevalidateGsm

SpecGsm == InitGsm /\ [][NextGsm]_vars

IsNationalNumber(n) ==
    /\ Len(n) = 10
    /\ n[1] = "5"
    /\ \A i \in 1..10 : n[i] \in Digits

WithoutSeparators(s) == SelectSeq(s, LAMBDA c : c \notin {" ", "-"})

KnownPrefixes == {<<>>, <<"0">>, <<"9", "0">>, <<"+", "9", "0">>}

\* s is N, 0N, 90N or +90N for the national number N
IsPrefixedNational(s, N) ==
    /\ IsNationalNumber(N)
    /\ \E p \in KnownPrefixes : s = p \o N

\* the last 10 characters of s
Last10(s) == SubSeq(s, Len(s) - 9, Len(s))

\* C4: for a national number N (10 digits, the first a 5), validate_gsm of
\* N, 0N, 90N and +90N, with any spaces or hyphens inserted, is Ok(90N).
C4_NormalizesToCanonical ==
    (op = "validate_gsm" /\ ret # NoRet) =>
        LET s == WithoutSeparators(input) IN
        (Len(s) >= 10 /\ IsPrefixedNational(s, Last10(s))) =>
            ret = Ok(<<"9", "0">> \o Last10(s))

\* +90 5ab1234567 written with a space or a hyphen was normalized
C4_Witness ==
    /\ op = "validate_gsm"
    /\ ret.kind = "Ok"
    /\ Len(input) = 14
    /\ \E i \in 1..14 : input[i] = "-"
    /\ WithoutSeparators(input) = <<"+", "9", "0">> \o Last10(input)
    /\ ret.value = <<"9", "0">> \o Last10(input)

\* what is left of s once at most one prefix, +90 else 90 else 0, is removed
WithoutOnePrefix(s) ==
    IF Len(s) >= 3 /\ SubSeq(s, 1, 3) = <<"+", "9", "0">> THEN SubSeq(s, 4, Len(s))
    ELSE IF Len(s) >= 2 /\ SubSeq(s, 1, 2) = <<"9", "0">> THEN SubSeq(s, 3, Len(s))
    ELSE IF Len(s) >= 1 /\ s[1] = "0" THEN SubSeq(s, 2, Len(s))
    ELSE s

\* C5 as stated: when the remainder of the argument, after removing spaces
\* and hyphens and at most one leading prefix, is not a national number,
\* validate_gsm returns a ValidationError.
C5_RejectsBadRemainder ==
    (op = "validate_gsm" /\ ret # NoRet) =>
        ((~ IsNationalNumber(WithoutOnePrefix(WithoutSeparators(input))))
            => IsValidationError(ret))

\* C5 as amended: the same, the remainder being taken after the leading and
\* trailing whitespace of the argument is trimmed as well.
C5_RejectsBadTrimmedRemainder ==
    (op = "validate_gsm" /\ ret # NoRet) =>
        ((~ IsNationalNumber(WithoutOnePrefix(WithoutSeparators(trim(input)))))
            => IsValidationError(ret))

\* an argument of 10 characters starting with 5 was rejected for a
\* character that is no digit
C5_Witness ==
    /\ op = "validate_gsm"
    /\ Len(input) = 10
    /\ input[1] = "5"
    /\ ~ IsNationalNumber(WithoutOnePrefix(WithoutSeparators(trim(input))))
    /\ ret = ValidationError("GSM number must contain only digits")

(***************************************************************************)
(* Validators::validate_installments.                                      *)
(***************************************************************************)
\* a mutation of VALID_INSTALLMENTS: the last count is missing
VALID_INSTALLMENTS_short == {1, 2, 3, 4, 5, 6, 7, 8, 9, 10, 11}

VALID_INSTALLMENTS == {1, 2, 3, 4, 5, 6, 7, 8, 9, 10, 11, 12}

validate_installments(installments) ==
    IF installments \notin VALID_INSTALLMENTS
    THEN ValidationError("Invalid installment count: " \o ToString(installments)
                            \o ". Valid values are 1-12")
    ELSE Ok(<<>>)

\* the values of a u8
U8 == 0..(U8Modulus - 1)

InitInstallments ==
    /\ op = "validate_installments"
    /\ input \in U8
    /\ ret = NoRet
    /\ origin = NoOrigin
    /\ overflow_checks \in BOOLEAN
    /\ ClientIdle

ValidateInstallments ==
    /\ op = "validate_installments"
    /\ ret = NoRet
    /\ ret' = validate_installments(input)
    /\ UNCHANGED <<op, input, origin, overflow_checks, cliVars>>

NextInstallments == ValidateInstallments

SpecInstallments == InitInstallments /\ [][NextInstallments]_vars

\* C7: validate_installments returns Ok exactly when 1 <= n <= 12, and a
\* ValidationError for every other u8 (0 and 13..255).
C7_OkIffOneToTwelve ==
    (op = "validate_installments" /\ ret # NoRet) =>
        /\ (ret.kind = "Ok") <=> (1 <= input /\ input <= 12)
        /\ (input = 0 \/ input >= 13) => IsValidationError(ret)

\* both ends of the range were accepted or rejected as the claim says
C7_Witness ==
    /\ op = "validate_installments"
    /\ \/ input = 12 /\ ret.kind = "Ok"
       \/ input = 255 /\ IsValidationError(ret)

(***************************************************************************)
(* Validators::validate_email: the regular expression                      *)
(*     ^[^\s@]+@[^\s@]+\.[^\s@]+$                                          *)
(* matched against the whole argument (is_match with both anchors; $ of    *)
(* the regex crate matches at the end of the text only).                   *)
(***************************************************************************)
\* a mutation of email_class: [^\s], the @ is let through
email_class_any_visible(c) == c \notin Whitespace

\* [^\s@]
email_class(c) == c \notin Whitespace /\ c # "@"

\* [^\s@]+ matches email[from..to]
email_run(email, from, to) ==
    /\ from <= to
    /\ \A k \in from..to : email_class(email[k])

\* some choice of where the @ and the \. of the pattern match
email_regex_is_match(email) ==
    \E at \in 1..Len(email) : \E dot \in 1..Len(email) :
        /\ email[at] = "@"
        /\ email[dot] = "."
        /\ email_run(email, 1, at - 1)
        /\ email_run(email, at + 1, dot - 1)
        /\ email_run(email, dot + 1, Len(email))

validate_email(email) ==
    IF ~ email_regex_is_match(email)
    THEN ValidationError("Invalid email format")
    ELSE Ok(<<>>)

\* the longest email argument
MaxEmailLen == 6

EmailInputs == SeqsUpTo({"a", "@", ".", " ", "\n"}, MaxEmailLen)

InitEmail ==
    /\ op = "validate_email"
    /\ input \in EmailInputs
    /\ ret = NoRet
    /\ origin = NoOrigin
    /\ overflow_checks \in BOOLEAN
    /\ ClientIdle

ValidateEmail ==
    /\ op = "validate_email"
    /\ ret = NoRet
    /\ ret' = validate_email(input)
    /\ UNCHANGED <<op, input, origin, overflow_checks, cliVars>>

NextEmail == ValidateEmail

SpecEmail == InitEmail /\ [][NextEmail]_vars

\* the positions of the character c in s
Positions(s, c) == {i \in 1..Len(s) : s[i] = c}

\* local@domain.tld: exactly one @, something before it, after it a part
\* holding a dot that is neither its first nor its last character, and no
\* whitespace anywhere
HasEmailShape(s) ==
    /\ Cardinality(Positions(s, "@")) = 1
    /\ \A i \in 1..Len(s) : s[i] \notin Whitespace
    /\ LET at == CHOOSE i \in Positions(s, "@") : TRUE
           domain == SubSeq(s, at + 1, Len(s))
       IN /\ at > 1
          /\ \E k \in Positions(domain, ".") : 1 < k /\ k < Len(domain)

\* C8: validate_email returns Ok exactly for the strings of the shape
\* local@domain.tld, and a ValidationError for every other string.
C8_OkIffEmailShape ==
    (op = "validate_email" /\ ret # NoRet) =>
        /\ (ret.kind = "Ok") <=> HasEmailShape(input)
        /\ (~ HasEmailShape(input)) => IsValidationError(ret)

\* a@a.a was accepted
C8_Witness ==
    /\ op = "validate_email"
    /\ input = <<"a", "@", "a", ".", "a">>
    /\ ret.kind = "Ok"

(***************************************************************************)
(* Validators::validate_amount.                                            *)
(* An f64 amount is modelled by its decimal expansion: a finite amount is  *)
(* a sign, a whole part and AmountScale fractional decimal digits; there   *)
(* are also the two infinities and NaN.  An amount of class "big" is the   *)
(* whole number 2^53 + whole, where an f64 no longer holds every integer.  *)
(***************************************************************************)
\* the number of fractional decimal digits an amount of the model carries
AmountScale == 12

\* the precision of format!("{:.10}", amount)
FormatPrecision == 10

Finite(sign, whole, frac) ==
    [class |-> "finite", sign |-> sign, whole |-> whole, frac |-> frac]
Infinity == [class |-> "inf", sign |-> 1, whole |-> 0, frac |-> <<>>]
NegInfinity == [class |-> "inf", sign |-> -1, whole |-> 0, frac |-> <<>>]
NaN == [class |-> "NaN", sign |-> 1, whole |-> 0, frac |-> <<>>]
\* 2^53 + whole = 9007199254740992 + whole, for an even whole >= 0
Big(whole) ==
    [class |-> "big", sign |-> 1, whole |-> whole, frac |-> [i \in 1..AmountScale |-> 0]]

is_zero(amount) ==
    /\ amount.class = "finite"
    /\ amount.whole = 0
    /\ \A i \in 1..Len(amount.frac) : amount.frac[i] = 0

\* amount <= 0.0 (false of NaN)
le_zero(amount) ==
    /\ amount.class # "NaN"
    /\ amount.sign = -1 \/ is_zero(amount)

RECURSIVE uint_text(_)
\* the decimal digits of a natural number
uint_text(n) ==
    IF n < 10 THEN <<from_digit(n)>>
    ELSE Append(uint_text(n \div 10), from_digit(n % 10))

RECURSIVE incremented(_)
\* a sequence of decimal digits plus one in its last place, and the carry out
incremented(ds) ==
    IF ds = <<>> THEN [digits |-> <<>>, carry |-> 1]
    ELSE IF ds[Len(ds)] < 9
    THEN [digits |-> [ds EXCEPT ![Len(ds)] = @ + 1], carry |-> 0]
    ELSE LET rest == incremented(SubSeq(ds, 1, Len(ds) - 1))
         IN [digits |-> Append(rest.digits, 0), carry |-> rest.carry]

\* the digits after the first `precision` go: the kept digits are rounded
\* to the nearest, an amount exactly halfway to the even neighbour
rounds_up(frac, whole, precision) ==
    LET next == frac[precision + 1]
        later == \E i \in (precision + 2)..Len(frac) : frac[i] # 0
        last == IF precision = 0 THEN whole % 10 ELSE frac[precision]
    IN \/ next > 5
       \/ next = 5 /\ later
       \/ next = 5 /\ ~ later /\ last % 2 = 1

RECURSIVE padded_text(_, _)
\* the last `width` decimal digits of a natural number
padded_text(n, width) ==
    IF width = 0 THEN <<>>
    ELSE Append(padded_text(n \div 10, width - 1), from_digit(n % 10))

\* the decimal digits of big * 2^53 + whole, 2^53 being
\* 90071992 * 10^8 + 54740992
whole_text(big, whole) ==
    IF big = 0 THEN uint_text(whole)
    ELSE LET low == big * 54740992 + whole
         IN uint_text(big * 90071992 + low \div 100000000)
               \o padded_text(low % 100000000, 8)

\* the text of big * 2^53 + whole.frac with `precision` digits after the
\* point
fixed_text_of(big, whole0, frac, precision) ==
    LET kept == SubSeq(frac, 1, precision)
        up == incremented(kept)
        round == rounds_up(frac, whole0, precision)
        digits == IF round THEN up.digits ELSE kept
        whole == IF round THEN whole0 + up.carry ELSE whole0
    IN whole_text(big, whole) \o <<".">>
          \o [i \in 1..precision |-> from_digit(digits[i])]

\* the text of a non-negative finite amount with `precision` digits after
\* the point
fixed_text(amount, precision) ==
    fixed_text_of(IF amount.class = "big" THEN 1 ELSE 0, amount.whole, amount.frac,
                  precision)

\* format!("{:.10}", amount) of an amount that is not <= 0
format_10(amount) ==
    CASE amount.class = "NaN" -> <<"N", "a", "N">>
      [] amount.class = "inf" -> <<"i", "n", "f">>
      [] OTHER -> fixed_text(amount, FormatPrecision)

RECURSIVE trim_end_matches(_, _)
\* str::trim_end_matches(c)
trim_end_matches(s, c) ==
    IF s # <<>> /\ s[Len(s)] = c
    THEN trim_end_matches(SubSeq(s, 1, Len(s) - 1), c)
    ELSE s

RECURSIVE split(_, _)
\* str::split(c), collected
split(s, c) ==
    IF \A i \in 1..Len(s) : s[i] # c THEN <<s>>
    ELSE LET k == CHOOSE i \in 1..Len(s) :
                      s[i] = c /\ \A j \in 1..(i - 1) : s[j] # c
         IN <<SubSeq(s, 1, k - 1)>> \o split(SubSeq(s, k + 1, Len(s)), c)

\* lines 139-144
decimal_places(amount) ==
    LET parts == split(trim_end_matches(format_10(amount), "0"), ".")
    IN IF Len(parts) >= 2 THEN Len(parts[2]) ELSE 0

validate_amount(amount) ==
    IF le_zero(amount)
    THEN ValidationError("Amount must be greater than 0")
    ELSE IF decimal_places(amount) > 2
    THEN ValidationError("Amount cannot have more than 2 decimal places")
    ELSE Ok(<<>>)

\* the fractional digits that are zero but for digit d at place j
OneDigit(d, j) == [i \in 1..AmountScale |-> IF i = j THEN d ELSE 0]

\* fractional parts: nothing, one digit at each decimal place, .50, .99
\* and .555, one cent plus one digit at each later place, and all nines
AmountFractions ==
    {OneDigit(d, j) : d \in {0, 1, 4, 9}, j \in 1..AmountScale}
        \cup {[OneDigit(d, j) EXCEPT ![2] = 1] : d \in {1, 4, 9}, j \in 3..AmountScale}
        \cup {[OneDigit(5, 1) EXCEPT ![2] = 5, ![3] = 5],
              [OneDigit(9, 1) EXCEPT ![2] = 9],
              [i \in 1..AmountScale |-> 9]}

AmountInputs ==
    {Finite(sign, whole, frac) :
        sign \in {-1, 1}, whole \in {0, 9, 10, 100}, frac \in AmountFractions}
        \cup {Infinity, NegInfinity, NaN}

InitAmount ==
    /\ op = "validate_amount"
    /\ input \in AmountInputs
    /\ ret = NoRet
    /\ origin = NoOrigin
    /\ overflow_checks \in BOOLEAN
    /\ ClientIdle

ValidateAmount ==
    /\ op = "validate_amount"
    /\ ret = NoRet
    /\ ret' = validate_amount(input)
    /\ UNCHANGED <<op, input, origin, overflow_checks, cliVars>>

NextAmount == ValidateAmount

SpecAmount == InitAmount /\ [][NextAmount]_vars

\* the number of fractional decimal digits of the amount itself: the place
\* of its last digit that is not zero
FractionalDigits(amount) ==
    LET places == {i \in 1..Len(amount.frac) : amount.frac[i] # 0}
    IN IF places = {} THEN 0 ELSE CHOOSE i \in places : \A j \in places : j <= i

IsPositive(amount) == amount.sign = 1 /\ ~ is_zero(amount)

\* C6: validate_amount returns a ValidationError when the value is <= 0 and
\* when the value has more than 2 fractional decimal digits, and Ok for
\* every positive value with at most 2; the digits counted are those of the
\* value, not of a rounding of it.
C6_OkIffPositiveTwoDecimals ==
    (op = "validate_amount" /\ ret # NoRet /\ input.class = "finite") =>
        /\ ((~ IsPositive(input)) \/ FractionalDigits(input) > 2)
              => IsValidationError(ret)
        /\ (IsPositive(input) /\ FractionalDigits(input) <= 2)
              => ret.kind = "Ok"

(***************************************************************************)
(* Config (src/src/config.rs).  The API key is a string; the base URL and  *)
(* the endpoints are sequences of tokens in which every "/" is a token of  *)
(* its own.                                                                *)
(***************************************************************************)
DefaultTimeout == 30

DefaultBaseUrl == <<"https:", "/", "/", "panel.tapsilat.dev", "/", "api", "/", "v1">>

Config_new(api_key) ==
    [api_key |-> api_key, base_url |-> DefaultBaseUrl, timeout |-> DefaultTimeout]

with_base_url(self, base_url) == [self EXCEPT !.base_url = base_url]

with_timeout(self, timeout) == [self EXCEPT !.timeout = timeout]

\* String::is_empty of the API key
api_key_is_empty(self) == self.api_key = ""

\* a mutation of base_url_is_empty: the base URL is not looked at
base_url_unchecked(self) == FALSE

\* String::is_empty of the base URL
base_url_is_empty(self) == self.base_url = <<>>

Config_validate(self) ==
    IF api_key_is_empty(self) THEN ConfigError("API key cannot be empty")
    ELSE IF base_url_is_empty(self) THEN ConfigError("Base URL cannot be empty")
    ELSE Ok(<<>>)

(***************************************************************************)
(* TapsilatClient::new, from_api_key (src/src/client.rs).                  *)
(***************************************************************************)
\* ureq::Agent::new_with_defaults(): the agent's configuration is ureq's
\* default one, in which a response status of 4xx or 5xx is returned as
\* Err(ureq::Error::StatusCode) and no timeout is set.  new() passes nothing
\* of the Config to the agent.
Agent_new_with_defaults ==
    [http_status_as_error |-> TRUE, max_redirects |-> 10, timeout_global |-> NoTimeout]

\* the result of a call, as the harness records it
Returned(name, r, arg, sent) ==
    [op |-> name, kind |-> r.kind, error |-> r.error, message |-> r.message,
     status_code |-> 0, value |-> JNull, raw |-> <<>>, arg |-> arg, requests |-> sent]

\* the client new(config) returns when validation passes
Client_of(cfg) ==
    [config |-> cfg, http_client |-> Agent_new_with_defaults, built |-> TRUE]

(***************************************************************************)
(* The request executor, TapsilatClient::make_request.                     *)
(***************************************************************************)
RECURSIVE trim_end_slashes(_)
\* str::trim_end_matches('/')
trim_end_slashes(s) ==
    IF s # <<>> /\ s[Len(s)] = "/" THEN trim_end_slashes(SubSeq(s, 1, Len(s) - 1)) ELSE s

RECURSIVE trim_start_slashes(_)
\* str::trim_start_matches('/')
trim_start_slashes(s) ==
    IF s # <<>> /\ Head(s) = "/" THEN trim_start_slashes(Tail(s)) ELSE s

\* lines 227-231
request_url(self, endpoint) ==
    trim_end_slashes(self.config.base_url) \o <<"/">> \o trim_start_slashes(endpoint)

\* str::to_uppercase of the method names in use
to_uppercase(method) ==
    CASE method = "get" -> "GET" [] method = "post" -> "POST"
      [] method = "put" -> "PUT" [] method = "delete" -> "DELETE"
      [] method = "patch" -> "PATCH" [] OTHER -> method

SupportedMethods == {"GET", "POST", "PUT", "DELETE"}

\* a mutation of request_headers: no Authorization header
request_headers_unauthorized(self) ==
    [Authorization |-> <<>>,
     Content_Type |-> "application/json",
     User_Agent |-> "tapsilat-rust/CARGO_PKG_VERSION"]

\* the three headers every branch of lines 255-319 sets
request_headers(self) ==
    [Authorization |-> <<"Bearer ", self.config.api_key>>,
     Content_Type |-> "application/json",
     User_Agent |-> "tapsilat-rust/CARGO_PKG_VERSION"]

\* what goes on the wire: call() sends no body, send_json(data) the JSON
\* of the body, send("") an empty one
request_body(method, has_body) ==
    IF method \in {"GET", "DELETE"} THEN "none"
    ELSE IF has_body THEN "json" ELSE "empty"

\* a mutation of request_timeout: the timeout of the client's Config
request_timeout_of_config(self) == SomeTimeout(self.config.timeout)

\* the timeout a request runs under: the agent's, as no branch of lines
\* 255-319 sets one on the request
request_timeout(self) == self.http_client.timeout_global

http_request(self, method, endpoint, has_body) ==
    [method |-> to_uppercase(method),
     url |-> request_url(self, endpoint),
     headers |-> request_headers(self),
     body |-> request_body(to_uppercase(method), has_body),
     timeout |-> request_timeout(self)]

(***************************************************************************)
(* Response bodies are sequences of tokens; serde_json::from_str is a      *)
(* recursive-descent parser over them.                                     *)
(***************************************************************************)
Ws(t) == [t |-> "ws", v |-> t]
Punct(t) == [t |-> "punct", v |-> t]
Str(t) == [t |-> "str", v |-> t]
Num(t) == [t |-> "num", v |-> t]
Lit(t) == [t |-> "lit", v |-> t]
Junk(t) == [t |-> "junk", v |-> t]

RECURSIVE skip_ws(_)
skip_ws(ts) == IF ts # <<>> /\ Head(ts).t = "ws" THEN skip_ws(Tail(ts)) ELSE ts

RECURSIVE trim_end_ws(_)
trim_end_ws(ts) ==
    IF ts # <<>> /\ ts[Len(ts)].t = "ws"
    THEN trim_end_ws(SubSeq(ts, 1, Len(ts) - 1))
    ELSE ts

\* a mutation of body_trim: the body as it is
body_untrimmed(ts) == ts

\* body_text.trim()
body_trim(ts) == trim_end_ws(skip_ws(ts))

ParseFailed == [ok |-> FALSE, value |-> JNull, rest |-> <<>>]
Parsed(v, rest) == [ok |-> TRUE, value |-> v, rest |-> rest]

IsPunct(ts, c) == ts # <<>> /\ Head(ts) = Punct(c)

RECURSIVE parse_value(_)
RECURSIVE parse_members(_, _)
RECURSIVE parse_items(_, _)

\* the members of an object after its "{": key : value, separated by commas
parse_members(ts0, acc) ==
    LET ts == skip_ws(ts0) IN
    IF ts = <<>> \/ Head(ts).t # "str" THEN ParseFailed
    ELSE LET key == Head(ts).v
             colon == skip_ws(Tail(ts))
         IN IF ~ IsPunct(colon, ":") THEN ParseFailed
            ELSE LET val == parse_value(Tail(colon)) IN
                 IF ~ val.ok THEN ParseFailed
                 ELSE LET more == skip_ws(val.rest)
                          \* a repeated key keeps its last value
                          members == [k \in DOMAIN acc \cup {key} |->
                                         IF k = key THEN val.value ELSE acc[k]]
                      IN IF IsPunct(more, "}") THEN Parsed(JObject(members), Tail(more))
                         ELSE IF IsPunct(more, ",") THEN parse_members(Tail(more), members)
                         ELSE ParseFailed

\* the items of an array after its "["
parse_items(ts0, acc) ==
    LET val == parse_value(ts0) IN
    IF ~ val.ok THEN ParseFailed
    ELSE LET more == skip_ws(val.rest)
             items == Append(acc, val.value)
         IN IF IsPunct(more, "]") THEN Parsed(JArray(items), Tail(more))
            ELSE IF IsPunct(more, ",") THEN parse_items(Tail(more), items)
            ELSE ParseFailed

parse_value(ts0) ==
    LET ts == skip_ws(ts0) IN
    IF ts = <<>> THEN ParseFailed
    ELSE LET tok == Head(ts) IN
         CASE tok.t = "str" -> Parsed(JString(tok.v), Tail(ts))
           [] tok.t = "num" -> Parsed(JNumber(tok.v), Tail(ts))
           [] tok.t = "lit" /\ tok.v = "null" -> Parsed(JNull, Tail(ts))
           [] tok.t = "lit" /\ tok.v \in {"true", "false"} ->
                 Parsed(JBool(tok.v), Tail(ts))
           [] tok = Punct("{") ->
                 IF IsPunct(skip_ws(Tail(ts)), "}")
                 THEN Parsed(JObject(<<>>), Tail(skip_ws(Tail(ts))))
                 ELSE parse_members(Tail(ts), <<>>)
           [] tok = Punct("[") ->
                 IF IsPunct(skip_ws(Tail(ts)), "]")
                 THEN Parsed(JArray(<<>>), Tail(skip_ws(Tail(ts))))
                 ELSE parse_items(Tail(ts), <<>>)
           [] OTHER -> ParseFailed

\* a mutation of from_str: one value, whatever follows it
from_str_prefix(ts) == parse_value(ts)

\* serde_json::from_str::<Value>: one value, then nothing but whitespace
from_str(ts) ==
    LET val == parse_value(ts) IN
    IF val.ok /\ skip_ws(val.rest) = <<>> THEN val ELSE ParseFailed

(***************************************************************************)
(* The outcome of make_request, from the response the transport delivers.  *)
(***************************************************************************)
\* TapsilatError::Http(ureq::Error::StatusCode(status)), through
\* From<ureq::Error> and the ? of lines 265, 276, 286, 298, 308, 319
HttpStatusError(status) ==
    [op |-> "make_request", kind |-> "Err", error |-> "Http",
     message |-> "http status: " \o ToString(status), status_code |-> status,
     value |-> JNull, raw |-> <<>>, arg |-> NoConfig, requests |-> 1]

\* TapsilatError::Http of a transport failure (connection, DNS, timeout)
HttpTransportError ==
    [op |-> "make_request", kind |-> "Err", error |-> "Http",
     message |-> "transport", status_code |-> 0,
     value |-> JNull, raw |-> <<>>, arg |-> NoConfig, requests |-> 1]

ApiError(status_code, message) ==
    [op |-> "make_request", kind |-> "Err", error |-> "ApiError",
     message |-> message, status_code |-> status_code,
     value |-> JNull, raw |-> <<>>, arg |-> NoConfig, requests |-> 1]

RequestConfigError(message, raw, sent) ==
    [op |-> "make_request", kind |-> "Err", error |-> "ConfigError",
     message |-> message, status_code |-> 0,
     value |-> JNull, raw |-> raw, arg |-> NoConfig, requests |-> sent]

RequestOk(value) ==
    [op |-> "make_request", kind |-> "Ok", error |-> "", message |-> "",
     status_code |-> 0, value |-> value, raw |-> <<>>, arg |-> NoConfig,
     requests |-> 1]

RequestPending ==
    [op |-> "make_request", kind |-> "Pending", error |-> "", message |-> "",
     status_code |-> 0, value |-> JNull, raw |-> <<>>, arg |-> NoConfig,
     requests |-> 1]

\* a mutation of status_as_error: the agent hands every response back
status_never_error(agent, status) == FALSE

\* RequestBuilder::call / send / send_json of an agent: a 4xx or 5xx status
\* is an Err(ureq::Error::StatusCode) when http_status_as_error is set
status_as_error(agent, status) ==
    agent.http_status_as_error /\ 400 <= status /\ status <= 599

\* lines 337-342: the message of the error body
error_message(body_text) ==
    LET parsed == from_str(body_text)
        error_body == IF parsed.ok THEN parsed.value ELSE JNull
        message == json_index(error_body, "message")
    IN IF json_is_str(message) THEN message.str ELSE "Unknown API error"

\* lines 328-372, for a response of the given status whose body is
\* body_text when it can be read
make_request_result(self, status, body_text, readable) ==
    IF status_as_error(self.http_client, status) THEN HttpStatusError(status)
    ELSE IF status >= 400
    THEN ApiError(status, error_message(IF readable THEN body_text ELSE <<>>))
    ELSE IF ~ readable
    THEN RequestConfigError("Failed to read response body", <<>>, 1)
    ELSE IF body_trim(body_text) = <<>> THEN RequestOk(JNull)
    ELSE LET parsed == from_str(body_text) IN
         IF parsed.ok THEN RequestOk(parsed.value)
         ELSE RequestConfigError("Failed to parse response JSON", body_text, 1)

(***************************************************************************)
(* Specification of the client: a configuration is built and validated, a  *)
(* client constructed from it, requests executed and answered.             *)
(***************************************************************************)
\* the number of requests a behaviour issues
MaxRequests == 2

ApiKeys == {"", "test-api-key"}

MockUrl == <<"http:", "/", "/", "127.0.0.1:1234", "/">>

BaseUrls == {<<>>, MockUrl}

Timeouts == {60}

\* (method, endpoint, body given) of the calls of make_request
Calls ==
    {<<"GET", <<"health">>, FALSE>>,
     <<"POST", <<"/", "order", "/", "create">>, TRUE>>,
     <<"post", <<"payments", "/", "p1", "/", "cancel">>, FALSE>>,
     <<"PUT", <<"installments", "/", "i1">>, TRUE>>,
     <<"PUT", <<"installments", "/", "i1">>, FALSE>>,
     <<"DELETE", <<"order", "/", "term">>, FALSE>>,
     <<"PATCH", <<"health">>, TRUE>>}

Statuses == {200, 204, 399, 400, 401, 500, 599, 600}

\* {"success":false,"message":"Invalid API key","errors":["Authentication failed"]}
InvalidKeyBody ==
    <<Punct("{"), Str("success"), Punct(":"), Lit("false"), Punct(","),
      Str("message"), Punct(":"), Str("Invalid API key"), Punct(","),
      Str("errors"), Punct(":"), Punct("["), Str("Authentication failed"),
      Punct("]"), Punct("}")>>

Bodies ==
    {<<>>,
     <<Ws(" "), Ws("\n")>>,
     <<Junk("<html>")>>,
     InvalidKeyBody,
     <<Punct("{"), Str("message"), Punct(":"), Num("42"), Punct("}")>>,
     <<Punct("{"), Str("error"), Punct(":"), Str("denied"), Punct("}"), Ws("\n")>>,
     <<Punct("{"), Str("message"), Punct(":"), Str("late"), Punct("}"), Junk("x")>>,
     <<Punct("["), Str("message"), Punct("]")>>,
     <<Str("message")>>}

InitClient ==
    /\ ValidatorsIdle
    /\ ClientIdle

ConfigNew ==
    /\ ~ client.built
    /\ \E api_key \in ApiKeys : config' = Config_new(api_key)
    /\ UNCHANGED <<client, wire, reply, outcome, valVars>>

ConfigWithBaseUrl ==
    /\ ~ client.built
    /\ config # NoConfig
    /\ \E base_url \in BaseUrls : config' = with_base_url(config, base_url)
    /\ UNCHANGED <<client, wire, reply, outcome, valVars>>

ConfigWithTimeout ==
    /\ ~ client.built
    /\ config # NoConfig
    /\ \E timeout \in Timeouts : config' = with_timeout(config, timeout)
    /\ UNCHANGED <<client, wire, reply, outcome, valVars>>

ConfigValidate ==
    /\ ~ client.built
    /\ config # NoConfig
    /\ outcome' = Returned("Config::validate", Config_validate(config), config, 0)
    /\ UNCHANGED <<config, client, wire, reply, valVars>>

\* TapsilatClient::new(config): config.validate()?, then the client
New(cfg, name) ==
    LET checked == Config_validate(cfg) IN
    /\ outcome' = Returned(name, checked, cfg, 0)
    /\ client' = IF checked.kind = "Ok" THEN Client_of(cfg) ELSE client
    /\ config' = NoConfig
    /\ UNCHANGED <<wire, reply, valVars>>

ClientNew ==
    /\ ~ client.built
    /\ config # NoConfig
    /\ New(config, "TapsilatClient::new")

ClientFromApiKey ==
    /\ ~ client.built
    /\ \E api_key \in ApiKeys : New(Config_new(api_key), "TapsilatClient::from_api_key")

\* make_request up to the point where the request is on the wire; a method
\* outside GET, POST, PUT and DELETE returns at line 321, nothing sent
MakeRequest ==
    /\ client.built
    /\ outcome.kind # "Pending"
    /\ Len(wire) < MaxRequests
    /\ \E call \in Calls :
         IF to_uppercase(call[1]) \in SupportedMethods
         THEN /\ wire' = Append(wire, http_request(client, call[1], call[2], call[3]))
              /\ outcome' = RequestPending
         ELSE /\ wire' = wire
              /\ outcome' = RequestConfigError("Unsupported HTTP method", <<>>, 0)
    /\ reply' = NoReply
    /\ UNCHANGED <<config, client, valVars>>

\* the server answers and make_request runs to its return
Respond ==
    /\ outcome.kind = "Pending"
    /\ \E status \in Statuses, body \in Bodies, readable \in BOOLEAN :
         /\ readable \/ body = <<>>
         /\ reply' = [status |-> status, body |-> body, readable |-> readable]
         /\ outcome' = make_request_result(client, status, body, readable)
    /\ UNCHANGED <<config, client, wire, valVars>>

\* no response arrives: the transport's error is returned through ?
TransportFails ==
    /\ outcome.kind = "Pending"
    /\ reply' = NoReply
    /\ outcome' = HttpTransportError
    /\ UNCHANGED <<config, client, wire, valVars>>

NextClient ==
    \/ ConfigNew
    \/ ConfigWithBaseUrl
    \/ ConfigWithTimeout
    \/ ConfigValidate
    \/ ClientNew
    \/ ClientFromApiKey
    \/ MakeRequest
    \/ Respond
    \/ TransportFails

SpecClient == InitClient /\ [][NextClient]_vars

IsConfigError(r) == r.kind = "Err" /\ r.error = "ConfigError"

HasEmptyField(cfg) == cfg.api_key = "" \/ cfg.base_url = <<>>

Constructors == {"Config::validate", "TapsilatClient::new", "TapsilatClient::from_api_key"}

\* C9: Config::validate, TapsilatClient::new and from_api_key fail with
\* ConfigError whenever the API key or the base URL is empty and succeed
\* otherwise; when construction fails no request has been issued; no client
\* exists whose api_key or base_url is empty.
C9_EmptyConfigRejected ==
    /\ outcome.op \in Constructors =>
         /\ IsConfigError(outcome) <=> HasEmptyField(outcome.arg)
         /\ (~ HasEmptyField(outcome.arg)) => outcome.kind = "Ok"
         /\ IsConfigError(outcome) => (wire = <<>> /\ ~ client.built)
    /\ client.built => ~ HasEmptyField(client.config)

\* new() refused a configuration whose API key is set and whose base URL
\* is empty
C9_Witness ==
    /\ outcome.op = "TapsilatClient::new"
    /\ IsConfigError(outcome)
    /\ outcome.arg.api_key = "test-api-key"
    /\ outcome.arg.base_url = <<>>
    /\ ~ client.built

\* the string value of the `message` member of a body that is a JSON
\* object, "Unknown API error" for any other body
MessageOf(body_text) ==
    LET parsed == from_str(body_text) IN
    IF /\ parsed.ok
       /\ parsed.value.type = "object"
       /\ "message" \in DOMAIN parsed.value.members
       /\ parsed.value.members["message"].type = "string"
    THEN parsed.value.members["message"].str
    ELSE "Unknown API error"

\* C10: when the server answers with a status >= 400, make_request returns
\* ApiError{status_code, message}: the status of the response, and the
\* string `message` of its JSON body or "Unknown API error".
C10_ApiErrorOnStatus400 ==
    (outcome.op = "make_request" /\ reply # NoReply /\ reply.status >= 400) =>
        /\ outcome.kind = "Err"
        /\ outcome.error = "ApiError"
        /\ outcome.status_code = reply.status
        /\ outcome.message = MessageOf(IF reply.readable THEN reply.body ELSE <<>>)

(***************************************************************************)
(* serde deserialization of a JSON value into the typed records of         *)
(* src/src/types.  A type is bool, string, number, Value, Option<T>,       *)
(* Vec<T>, a unit-variant enum or a struct; what is kept of a numeric type *)
(* is that it takes a JSON number.  The deserialized value is written as   *)
(* the JSON value restricted to the declared fields.                       *)
(***************************************************************************)
TBool == [k |-> "bool"]
TString == [k |-> "string"]
TNumber == [k |-> "number"]
TValue == [k |-> "value"]
TOption(t) == [k |-> "opt", of |-> t]
TVec(t) == [k |-> "vec", of |-> t]
TEnum(name) == [k |-> "enum", name |-> name]
TStruct(name) == [k |-> "struct", name |-> name]
\* ApiResponse<T>
TApiResponse(t) == [k |-> "struct", name |-> "ApiResponse", of |-> t]
\* PaginatedResponse<T>
TPaginated(t) == [k |-> "struct", name |-> "PaginatedResponse", of |-> t]

Field(key, type) == [key |-> key, type |-> type]

\* the event types with a catch-all: a name that is none of the eight is
\* read as the first variant
EnumVariantsWithOther(name) ==
    [n \in {"order.completed", "order.failed", "order.cancelled", "order.refunded",
            "payment.completed", "payment.failed", "installment.completed",
            "installment.failed", "order.created", "OrderCompleted",
            "ORDER.COMPLETED", "order.completed ", "other", ""} |-> "OrderCompleted"]

\* the serde names of the variants of an enum, each with its variant
EnumVariants(name) ==
    CASE name = "WebhookEventType" ->
           [n \in {"order.completed", "order.failed", "order.cancelled",
                   "order.refunded", "payment.completed", "payment.failed",
                   "installment.completed", "installment.failed"} |->
              CASE n = "order.completed" -> "OrderCompleted"
                [] n = "order.failed" -> "OrderFailed"
                [] n = "order.cancelled" -> "OrderCancelled"
                [] n = "order.refunded" -> "OrderRefunded"
                [] n = "payment.completed" -> "PaymentCompleted"
                [] n = "payment.failed" -> "PaymentFailed"
                [] n = "installment.completed" -> "InstallmentCompleted"
                [] n = "installment.failed" -> "InstallmentFailed"]
      [] name = "PaymentStatus" ->
           [n \in {"pending", "processing", "completed", "failed", "cancelled"} |->
              CASE n = "pending" -> "Pending" [] n = "processing" -> "Processing"
                [] n = "completed" -> "Completed" [] n = "failed" -> "Failed"
                [] n = "cancelled" -> "Cancelled"]
      [] name = "InstallmentStatus" ->
           [n \in {"pending", "paid", "overdue", "cancelled", "refunded"} |->
              CASE n = "pending" -> "Pending" [] n = "paid" -> "Paid"
                [] n = "overdue" -> "Overdue" [] n = "cancelled" -> "Cancelled"
                [] n = "refunded" -> "Refunded"]

\* the fields of a struct, in declaration order
StructFields(t) ==
    CASE t.name = "ApiResponse" ->
           <<Field("success", TBool), Field("data", TOption(t.of)),
             Field("message", TOption(TString)),
             Field("errors", TOption(TVec(TString)))>>
      [] t.name = "Payment" ->
           <<Field("id", TString), Field("amount", TNumber),
             Field("currency", TString), Field("status", TEnum("PaymentStatus")),
             Field("description", TOption(TString)),
             Field("customer_id", TOption(TString)),
             Field("created_at", TString), Field("updated_at", TString)>>
      [] t.name = "PaymentResponse" ->
           <<Field("payment", TStruct("Payment")),
             Field("checkout_url", TOption(TString))>>
      [] t.name = "PaginatedResponse" ->
           <<Field("data", TVec(t.of)), Field("pagination", TStruct("PaginationInfo"))>>
      [] t.name = "PaginationInfo" ->
           <<Field("current_page", TNumber), Field("per_page", TNumber),
             Field("total", TNumber), Field("total_pages", TNumber)>>
      [] t.name = "OrderResponse" ->
           <<Field("order_id", TOption(TString)),
             Field("reference_id", TOption(TString)),
             Field("checkout_url", TOption(TString))>>
      [] t.name = "Order" ->
           <<Field("id", TOption(TString)), Field("reference_id", TOption(TString)),
             Field("amount", TOption(TString)), Field("total", TOption(TString)),
             Field("paid_amount", TOption(TString)),
             Field("refunded_amount", TOption(TString)),
             Field("currency", TOption(TString)), Field("status", TOption(TNumber)),
             Field("status_enum", TOption(TString)),
             Field("description", TOption(TString)),
             Field("buyer", TOption(TValue)), Field("items", TOption(TVec(TValue))),
             Field("basket_items", TOption(TVec(TValue))),
             Field("callback_url", TOption(TString)),
             Field("checkout_url", TOption(TString)),
             Field("created_at", TOption(TString)),
             Field("updated_at", TOption(TString)),
             Field("metadata", TOption(TVec(TValue)))>>
      [] t.name = "RefundOrderResponse" ->
           <<Field("order", TStruct("Order")), Field("refund_amount", TNumber),
             Field("refund_id", TString)>>
      [] t.name = "Installment" ->
           <<Field("id", TString), Field("installment_number", TNumber),
             Field("amount", TNumber), Field("due_date", TString),
             Field("paid_at", TOption(TString)),
             Field("status", TEnum("InstallmentStatus"))>>
      [] t.name = "InstallmentPlan" ->
           <<Field("id", TString), Field("order_id", TString),
             Field("total_installments", TNumber),
             Field("installment_amount", TNumber), Field("currency", TString),
             Field("status", TEnum("InstallmentStatus")),
             Field("installments", TVec(TStruct("Installment"))),
             Field("created_at", TString), Field("updated_at", TString)>>
      [] t.name = "WebhookData" ->
           <<Field("order_id", TOption(TString)), Field("payment_id", TOption(TString)),
             Field("installment_id", TOption(TString)),
             Field("amount", TOption(TNumber)), Field("currency", TOption(TString)),
             Field("status", TOption(TString)), Field("metadata", TOption(TValue))>>
      [] t.name = "WebhookEvent" ->
           <<Field("event_type", TEnum("WebhookEventType")),
             Field("data", TStruct("WebhookData")), Field("timestamp", TString),
             Field("signature", TOption(TString))>>

DeFailed == [ok |-> FALSE, value |-> JNull]
DeOk(v) == [ok |-> TRUE, value |-> v]

RECURSIVE deserialize(_, _)
\* <T as Deserialize>::deserialize of a serde_json::Value
deserialize(t, v) ==
    CASE t.k = "bool" -> IF v.type = "bool" THEN DeOk(v) ELSE DeFailed
      [] t.k = "string" -> IF v.type = "string" THEN DeOk(v) ELSE DeFailed
      [] t.k = "number" -> IF v.type = "number" THEN DeOk(v) ELSE DeFailed
      [] t.k = "value" -> DeOk(v)
      [] t.k = "opt" -> IF v = JNull THEN DeOk(JNull) ELSE deserialize(t.of, v)
      [] t.k = "vec" ->
           IF v.type # "array" THEN DeFailed
           ELSE LET items == [i \in 1..Len(v.items) |-> deserialize(t.of, v.items[i])]
                IN IF \A i \in 1..Len(items) : items[i].ok
                   THEN DeOk(JArray([i \in 1..Len(items) |-> items[i].value]))
                   ELSE DeFailed
      [] t.k = "enum" ->
           \* a unit variant: its name as a string, or {"name": null}
           LET names == DOMAIN EnumVariants(t.name) IN
           IF v.type = "string"
           THEN IF v.str \in names THEN DeOk(v) ELSE DeFailed
           ELSE IF v.type = "object" /\ Cardinality(DOMAIN v.members) = 1
           THEN LET n == CHOOSE n \in DOMAIN v.members : TRUE
                IN IF n \in names /\ v.members[n] = JNull
                   THEN DeOk(JString(n)) ELSE DeFailed
           ELSE DeFailed
      [] t.k = "struct" ->
           LET fields == StructFields(t)
               keys == {fields[i].key : i \in 1..Len(fields)}
               type_of(key) == (CHOOSE i \in 1..Len(fields) : fields[i].key = key)
           IN
           IF v.type = "object"
           THEN \* visit_map: a field that is missing is None when it is an
                \* Option and an error otherwise; unknown keys are skipped
                LET given == keys \cap DOMAIN v.members
                    parts == [key \in given |->
                                 deserialize(fields[type_of(key)].type, v.members[key])]
                IN IF /\ \A key \in keys \ given : fields[type_of(key)].type.k = "opt"
                      /\ \A key \in given : parts[key].ok
                   THEN DeOk(JObject([key \in given |-> parts[key].value]))
                   ELSE DeFailed
           ELSE IF v.type = "array"
           THEN \* visit_seq: one element for every field, in order
                LET parts == [i \in 1..Len(v.items) |->
                                 IF i <= Len(fields)
                                 THEN deserialize(fields[i].type, v.items[i])
                                 ELSE DeFailed]
                IN IF /\ Len(v.items) = Len(fields)
                      /\ \A i \in 1..Len(parts) : parts[i].ok
                   THEN DeOk(JObject([key \in keys |-> parts[type_of(key)].value]))
                   ELSE DeFailed
           ELSE DeFailed

\* TapsilatError::InvalidResponse
InvalidResponse(msg) ==
    [kind |-> "Err", error |-> "InvalidResponse", message |-> msg, value |-> <<>>]

\* From<serde_json::Error> for TapsilatError
JsonParsingError == InvalidResponse("JSON parsing error")

(***************************************************************************)
(* The operations of the payment, order and installment modules            *)
(* (src/src/modules/payments.rs, orders.rs, installments.rs), and two      *)
(* operations that hand back the JSON of the response as it is.  Each      *)
(* runs its local checks, calls make_request once and unwraps the          *)
(* ApiResponse envelope of the answer.                                     *)
(***************************************************************************)
\* Option<T>: None carries a value of T that nothing reads
None(unread) == [some |-> FALSE, value |-> unread]
Some(v) == [some |-> TRUE, value |-> v]

\* r?; next
and_then(r, next) == IF r.kind = "Ok" THEN next ELSE r

\* if id.is_empty() { return Err(ValidationError(msg)) }
id_given(id, msg) == IF id = "" THEN ValidationError(msg) ELSE Ok(<<>>)

\* if let Some(amount) = request.amount { validate_amount(amount)? }
validate_some_amount(amount) ==
    IF amount.some THEN validate_amount(amount.value) ELSE Ok(<<>>)

RECURSIVE Pow10(_)
Pow10(n) == IF n = 0 THEN 1 ELSE 10 * Pow10(n - 1)

RECURSIVE digits_value(_)
\* the number a sequence of decimal digits writes
digits_value(ds) ==
    IF ds = <<>> THEN 0 ELSE 10 * digits_value(SubSeq(ds, 1, Len(ds) - 1)) + ds[Len(ds)]

\* a non-negative amount in parts: the number of times 2^53 is in it,
\* millionths, and what is left of the fraction below a millionth
amount_units(amount) ==
    [class |-> IF amount.class = "big" THEN "finite" ELSE amount.class,
     big |-> IF amount.class = "big" THEN 1 ELSE 0,
     hi |-> IF amount.class \in {"finite", "big"}
            THEN amount.whole * Pow10(6) + digits_value(SubSeq(amount.frac, 1, 6))
            ELSE 0,
     lo |-> IF amount.class \in {"finite", "big"}
            THEN digits_value(SubSeq(amount.frac, 7, Len(amount.frac)))
            ELSE 0]

\* In the definitions below a value that is used more than once is bound
\* to a name as the one element of a set, so that it is computed once.
RECURSIVE Spacing(_)
\* the distance between neighbouring f64 values from big * 2^53 on, big > 0
Spacing(big) == IF big <= 1 THEN 2 ELSE 2 * Spacing(big \div 2)

\* the f64 nearest to a result: from 2^53 on the nearest multiple of the
\* spacing, a result halfway to the multiple with the even mantissa; below,
\* the result itself, the rounding of an f64 being far below the model's
\* last digit there
f64_rounded(result) ==
    CHOOSE rounded \in
        {IF u.class # "finite" \/ u.big = 0 THEN u
         ELSE LET step == Spacing(u.big) * Pow10(6)
                  q == u.hi \div step
                  r == u.hi % step
                  up == \/ 2 * r > step
                        \/ 2 * r = step /\ u.lo > 0
                        \/ 2 * r = step /\ u.lo = 0 /\ q % 2 = 1
              IN [u EXCEPT !.hi = (IF up THEN q + 1 ELSE q) * step, !.lo = 0] :
            u \in {result}} : TRUE

units_carried(class, big, hi, lo) ==
    f64_rounded([class |-> class,
                 big |-> big,
                 hi |-> hi + lo \div Pow10(AmountScale - 6),
                 lo |-> lo % Pow10(AmountScale - 6)])

\* the class of a sum or of a product by a positive count
class_joined(c1, c2) ==
    IF "NaN" \in {c1, c2} THEN "NaN" ELSE IF "inf" \in {c1, c2} THEN "inf" ELSE "finite"

\* item.price * item.quantity as f64, quantity > 0
item_total(item) ==
    CHOOSE total \in
        {units_carried(price.class, price.big * item.quantity,
                       price.hi * item.quantity, price.lo * item.quantity) :
            price \in {amount_units(item.price)}} : TRUE

RECURSIVE sum_from(_, _)
\* Iterator::sum: the totals are added one by one, from the first
sum_from(acc, totals) ==
    IF totals = <<>> THEN acc
    ELSE CHOOSE sum \in
             {sum_from(next, Tail(totals)) :
                 next \in {units_carried(class_joined(a.class, head.class),
                                         a.big + head.big, a.hi + head.hi,
                                         a.lo + head.lo) :
                              a \in {acc}, head \in {Head(totals)}}} : TRUE

\* request.items.iter().map(|item| item.price * item.quantity as f64).sum()
calculated_total(items) ==
    CHOOSE total \in
        {sum_from([class |-> "finite", big |-> 0, hi |-> 0, lo |-> 0], totals) :
            totals \in {[i \in 1..Len(items) |-> item_total(items[i])]}} : TRUE

units_gt(u, v) == u.hi > v.hi \/ (u.hi = v.hi /\ u.lo > v.lo)

\* u - v for u >= v
units_minus(u, v) ==
    IF u.lo >= v.lo
    THEN [class |-> "finite", big |-> 0, hi |-> u.hi - v.hi, lo |-> u.lo - v.lo]
    ELSE [class |-> "finite", big |-> 0, hi |-> u.hi - v.hi - 1,
          lo |-> u.lo + Pow10(AmountScale - 6) - v.lo]

\* (request.amount - calculated_total).abs() > 0.01 for amounts that
\* passed validate_amount: false when the difference is NaN, true when it
\* is infinite.  A difference of one cent exactly is on either side of the
\* f64 0.01 in the code, depending on the amounts; it is taken as written
\* here and the orders of the model keep away from it.
amount_mismatch(amount, calculated) ==
    \E a \in {amount_units(amount)}, total \in {calculated},
       cent \in {[class |-> "finite", big |-> 0, hi |-> 10000, lo |-> 0]} :
       IF a.class = "NaN" \/ total.class = "NaN" THEN FALSE
       ELSE IF a.class = "inf" /\ total.class = "inf" THEN FALSE
       ELSE IF a.class = "inf" \/ total.class = "inf" THEN TRUE
       ELSE IF a.big # total.big THEN TRUE
       ELSE IF units_gt(a, total) THEN units_gt(units_minus(a, total), cent)
       ELSE units_gt(units_minus(total, a), cent)

\* format!("{:.2}", x) of a sum or an amount in parts
units_text(units) ==
    CHOOSE text \in
        {CASE u.class = "NaN" -> <<"N", "a", "N">>
           [] u.class = "inf" -> <<"i", "n", "f">>
           [] OTHER ->
                fixed_text_of(u.big, u.hi \div Pow10(6),
                              [i \in 1..AmountScale |->
                                  IF i <= 6 THEN (u.hi \div Pow10(6 - i)) % 10
                                  ELSE (u.lo \div Pow10(AmountScale - i)) % 10],
                              2) :
            u \in {units}} : TRUE

\* the error of orders.rs lines 228-231: the text with its two arguments
amount_mismatch_error(amount, calculated) ==
    [ValidationError("Order amount ({:.2}) doesn't match items total ({:.2})")
       EXCEPT !.value = <<units_text(amount_units(amount)), units_text(calculated)>>]

RECURSIVE validate_items(_)
\* the loop of orders.rs lines 206-220
validate_items(items) ==
    IF items = <<>> THEN Ok(<<>>)
    ELSE LET item == Head(items) IN
         and_then(validate_amount(item.price),
            IF item.quantity <= 0
            THEN ValidationError("Item quantity must be greater than 0")
            ELSE IF trim(item.name) = <<>>
            THEN ValidationError("Item name cannot be empty")
            ELSE validate_items(Tail(items)))

\* OrderModule::validate_create_order_request
validate_create_order_request(request) ==
    and_then(validate_amount(request.amount),
    and_then(IF request.buyer.some
             THEN and_then(validate_email(request.buyer.value.email),
                           validate_gsm(request.buyer.value.gsm))
             ELSE Ok(<<>>),
    IF request.items = <<>>
    THEN ValidationError("Order must have at least one item")
    ELSE and_then(validate_items(request.items),
         CHOOSE checked \in
             {IF amount_mismatch(request.amount, total)
              THEN amount_mismatch_error(request.amount, total)
              ELSE Ok(<<>>) :
                 total \in {calculated_total(request.items)}} : TRUE)))

\* InstallmentModule::validate_create_request
validate_create_request(request) ==
    and_then(id_given(request.order_id, "Order ID cannot be empty"),
    and_then(validate_installments(request.installment_count),
    IF request.first_installment_date = ""
    THEN ValidationError("First installment date cannot be empty")
    ELSE Ok(<<>>)))

\* a mutation of query_params: per_page comes first
query_params_per_page_first(pagination) ==
    IF ~ pagination.some THEN <<>>
    ELSE LET page == IF pagination.value.page.some
                     THEN <<<<"page=", ToString(pagination.value.page.value)>>>>
                     ELSE <<>>
             per_page == IF pagination.value.per_page.some
                         THEN <<<<"per_page=", ToString(pagination.value.per_page.value)>>>>
                         ELSE <<>>
             params == per_page \o page
         IN IF params = <<>> THEN <<>>
            ELSE IF Len(params) = 1 THEN <<"?">> \o params[1]
            ELSE <<"?">> \o params[1] \o <<"&">> \o params[2]

\* the query string of a list operation
query_params(pagination) ==
    IF ~ pagination.some THEN <<>>
    ELSE LET page == IF pagination.value.page.some
                     THEN <<<<"page=", ToString(pagination.value.page.value)>>>>
                     ELSE <<>>
             per_page == IF pagination.value.per_page.some
                         THEN <<<<"per_page=", ToString(pagination.value.per_page.value)>>>>
                         ELSE <<>>
             params == page \o per_page
         IN IF params = <<>> THEN <<>>
            ELSE IF Len(params) = 1 THEN <<"?">> \o params[1]
            ELSE <<"?">> \o params[1] \o <<"&">> \o params[2]

\* how an operation reads the answer: `type` is the T of ApiResponse<T>,
\* `field` the member of the data it returns ("" for the data itself),
\* `missing` the text when that member is no string, `default` the text
\* when there is no data and no message
Unwraps(type, default) ==
    [envelope |-> TRUE, type |-> type, field |-> "", missing |-> "", default |-> default]
UnwrapsField(field, missing, default) ==
    [envelope |-> TRUE, type |-> TValue, field |-> field, missing |-> missing,
     default |-> default]
Unwrapped ==
    [envelope |-> FALSE, type |-> TValue, field |-> "", missing |-> "", default |-> ""]

\* what an operation does with its arguments: the local checks, the one
\* call of make_request and the way the answer is read
Plan(check, method, endpoint, has_body, unwrap) ==
    [check |-> check, method |-> method, endpoint |-> endpoint,
     has_body |-> has_body, unwrap |-> unwrap]

\* a mutation of local_checks: nothing is checked
no_local_checks(name, request) == Ok(<<>>)

\* the checks an operation makes before it calls make_request
local_checks(name, request) ==
    CASE name = "payments.create" -> validate_amount(request.amount)
      [] name \in {"payments.get", "payments.cancel"} ->
           id_given(request.id, "Payment ID cannot be empty")
      [] name = "orders.create" -> validate_create_order_request(request)
      [] name \in {"orders.get", "orders.get_status", "orders.cancel",
                   "orders.get_checkout_url", "installments.get_plans_by_order"} ->
           id_given(request.id, "Order ID cannot be empty")
      [] name = "orders.refund" ->
           and_then(id_given(request.id, "Order ID cannot be empty"),
                    validate_some_amount(request.optional_amount))
      [] name = "installments.create_plan" -> validate_create_request(request)
      [] name \in {"installments.get_plan", "installments.cancel_plan"} ->
           id_given(request.id, "Plan ID cannot be empty")
      [] name \in {"installments.update_installment",
                   "installments.refund_installment"} ->
           and_then(id_given(request.id, "Installment ID cannot be empty"),
                    validate_some_amount(request.optional_amount))
      [] OTHER -> Ok(<<>>)

operation(name, request) ==
    LET check == local_checks(name, request) IN
    CASE name = "payments.create" ->
           Plan(check, "POST", <<"payments">>, TRUE,
                Unwraps(TStruct("PaymentResponse"), "No payment data in response"))
      [] name = "payments.get" ->
           Plan(check, "GET", <<"payments", "/", request.id>>, FALSE,
                Unwraps(TStruct("Payment"), "No payment data in response"))
      [] name = "payments.list" ->
           Plan(check, "GET", <<"payments">> \o query_params(request.pagination), FALSE,
                Unwraps(TPaginated(TStruct("Payment")), "No payments data in response"))
      [] name = "payments.cancel" ->
           Plan(check, "POST", <<"payments", "/", request.id, "/", "cancel">>, FALSE,
                Unwraps(TStruct("Payment"), "No payment data in response"))
      [] name = "orders.create" ->
           Plan(check, "POST", <<"orders">>, TRUE,
                Unwraps(TStruct("OrderResponse"), "No order data in response"))
      [] name = "orders.get" ->
           Plan(check, "GET", <<"orders", "/", request.id>>, FALSE,
                Unwraps(TStruct("Order"), "No order data in response"))
      [] name = "orders.get_status" ->
           Plan(check, "GET", <<"orders", "/", request.id, "/", "status">>, FALSE,
                UnwrapsField("status", "Status field not found in response",
                             "No status data in response"))
      [] name = "orders.list" ->
           Plan(check, "GET", <<"orders">> \o query_params(request.pagination), FALSE,
                Unwraps(TPaginated(TStruct("Order")), "No orders data in response"))
      [] name = "orders.cancel" ->
           Plan(check, "POST", <<"orders", "/", request.id, "/", "cancel">>, FALSE,
                Unwraps(TStruct("Order"), "No order data in response"))
      [] name = "orders.refund" ->
           Plan(check, "POST", <<"orders", "/", request.id, "/", "refund">>, TRUE,
                Unwraps(TStruct("RefundOrderResponse"), "No refund data in response"))
      [] name = "orders.get_checkout_url" ->
           Plan(check, "GET", <<"orders", "/", request.id, "/", "checkout">>, FALSE,
                UnwrapsField("checkout_url", "Checkout URL not found in response",
                             "No checkout data in response"))
      [] name = "installments.create_plan" ->
           Plan(check, "POST", <<"installments", "/", "plans">>, TRUE,
                Unwraps(TStruct("InstallmentPlan"),
                        "No installment plan data in response"))
      [] name = "installments.get_plan" ->
           Plan(check, "GET", <<"installments", "/", "plans", "/", request.id>>, FALSE,
                Unwraps(TStruct("InstallmentPlan"),
                        "No installment plan data in response"))
      [] name = "installments.get_plans_by_order" ->
           Plan(check, "GET",
                <<"orders", "/", request.id, "/", "installments", "/", "plans">>, FALSE,
                Unwraps(TVec(TStruct("InstallmentPlan")),
                        "No installment plans data in response"))
      [] name = "installments.update_installment" ->
           Plan(check, "PUT", <<"installments", "/", request.id>>, TRUE,
                Unwraps(TStruct("Installment"), "No installment data in response"))
      [] name = "installments.cancel_plan" ->
           Plan(check, "POST",
                <<"installments", "/", "plans", "/", request.id, "/", "cancel">>, FALSE,
                Unwraps(TStruct("InstallmentPlan"),
                        "No installment plan data in response"))
      [] name = "installments.refund_installment" ->
           Plan(check, "POST", <<"installments", "/", request.id, "/", "refund">>, TRUE,
                Unwraps(TStruct("Installment"), "No installment data in response"))
      [] name = "installments.list_plans" ->
           Plan(check, "GET",
                <<"installments", "/", "plans">> \o query_params(request.pagination),
                FALSE,
                Unwraps(TPaginated(TStruct("InstallmentPlan")),
                        "No installment plans data in response"))
      [] name = "subscriptions.cancel" ->
           Plan(check, "POST", <<"subscription", "/", "cancel">>, TRUE, Unwrapped)
      [] name = "health_check" ->
           Plan(check, "GET", <<"health">>, FALSE, Unwrapped)

\* a mutation of transport_call: the request is sent again
transport_call_twice(request) == <<request, request>>

\* RequestBuilder::call / send / send_json: the requests one call of
\* make_request puts on the wire
transport_call(request) == <<request>>

\* the error of make_request, returned through ?
Propagated(result) ==
    [kind |-> "Err", error |-> result.error, message |-> result.message, value |-> <<>>]

\* let api_response: ApiResponse<T> = serde_json::from_value(response)?;
\* match api_response.data { Some(d) => Ok(d), None => Err(InvalidResponse(
\*     api_response.message.unwrap_or(default))) }
unwrap_envelope(unwrap, response) ==
    LET api_response == deserialize(TApiResponse(unwrap.type), response)
        data == json_index(api_response.value, "data")
        message == json_index(api_response.value, "message")
    IN IF ~ api_response.ok THEN JsonParsingError
       ELSE IF data = JNull
       THEN InvalidResponse(IF json_is_str(message) THEN message.str ELSE unwrap.default)
       ELSE IF unwrap.field = "" THEN Ok(data)
       ELSE IF json_is_str(json_index(data, unwrap.field))
       THEN Ok(json_index(data, unwrap.field))
       ELSE InvalidResponse(unwrap.missing)

\* what the operation returns once make_request has returned `result`
operation_result(unwrap, result) ==
    IF result.kind = "Err" THEN Propagated(result)
    ELSE IF unwrap.envelope THEN unwrap_envelope(unwrap, result.value)
    ELSE Ok(result.value)

(***************************************************************************)
(* Specification of the operations: one operation is called on a client    *)
(* built from a valid configuration; the server answers or the transport   *)
(* fails.                                                                  *)
(***************************************************************************)
OperationNames ==
    {"payments.create", "payments.get", "payments.list", "payments.cancel",
     "orders.create", "orders.get", "orders.get_status", "orders.list",
     "orders.cancel", "orders.refund", "orders.get_checkout_url",
     "installments.create_plan", "installments.get_plan",
     "installments.get_plans_by_order", "installments.update_installment",
     "installments.cancel_plan", "installments.refund_installment",
     "installments.list_plans", "subscriptions.cancel", "health_check"}

\* whole.d1 d2
Cents(whole, d1, d2) == Finite(1, whole, [OneDigit(d1, 1) EXCEPT ![2] = d2])

\* 10.00, 0, -10.00, 0.001, 0.000000000001 and NaN
OperationAmounts ==
    {Cents(10, 0, 0), Cents(0, 0, 0), Finite(-1, 10, OneDigit(0, 1)),
     Finite(1, 0, OneDigit(1, 3)), Finite(1, 0, OneDigit(1, AmountScale)), NaN}

Item(name, price, quantity) == [name |-> name, price |-> price, quantity |-> quantity]

Buyer(email, gsm) == Some([email |-> email, gsm |-> gsm])

GoodEmail == <<"a", "@", "a", ".", "a">>

GoodGsm == <<"5", "0", "0", "1", "2", "3", "4", "5", "6", "7">>

NoAmount == None(Cents(0, 0, 0))

NoBuyer == None([email |-> <<>>, gsm |-> <<>>])

NoPagination == None([page |-> None(0), per_page |-> None(0)])

BaseRequest ==
    [id |-> "x1", amount |-> Cents(10, 0, 0), optional_amount |-> NoAmount,
     order_id |-> "o1", installment_count |-> 3,
     first_installment_date |-> "2024-01-15", buyer |-> NoBuyer, items |-> <<>>,
     pagination |-> NoPagination]

Pages ==
    {NoPagination,
     Some([page |-> None(0), per_page |-> None(0)]),
     Some([page |-> Some(1), per_page |-> Some(10)]),
     Some([page |-> Some(2), per_page |-> None(0)]),
     Some([page |-> None(0), per_page |-> Some(5)])}

\* the orders an order is created from: amount 10.00 or 149.99 with items
\* that add up to it, and one order for every check that can fail
CreateOrderRequests ==
    LET pen == Item(<<"p", "e", "n">>, Cents(5, 0, 0), 2) IN
    {[BaseRequest EXCEPT !.items = <<pen>>],
     [BaseRequest EXCEPT !.items = <<pen>>, !.buyer = Buyer(GoodEmail, GoodGsm)],
     [BaseRequest EXCEPT !.items = <<Item(<<"x">>, Cents(149, 9, 9), 1)>>,
                         !.amount = Cents(149, 9, 9)],
     [BaseRequest EXCEPT !.items = <<pen>>, !.amount = Cents(0, 0, 0)],
     [BaseRequest EXCEPT !.items = <<pen>>, !.buyer = Buyer(<<"a", "@", "a">>, GoodGsm)],
     [BaseRequest EXCEPT !.items = <<pen>>, !.buyer = Buyer(GoodEmail, <<"5", "0", "0">>)],
     BaseRequest,
     [BaseRequest EXCEPT !.items = <<pen, Item(<<"x">>, Finite(1, 0, OneDigit(1, 3)), 1)>>],
     [BaseRequest EXCEPT !.items = <<Item(<<"p">>, Cents(5, 0, 0), 0)>>],
     [BaseRequest EXCEPT !.items = <<Item(<<" ", "\t">>, Cents(5, 0, 0), 2)>>],
     [BaseRequest EXCEPT !.items = <<Item(<<"x">>, Cents(149, 9, 9), 2)>>,
                         !.amount = Cents(149, 9, 9)],
     [BaseRequest EXCEPT !.items = <<pen>>, !.amount = NaN],
     [BaseRequest EXCEPT !.items = <<pen>>, !.amount = Cents(10, 0, 2)],
     [BaseRequest EXCEPT !.items = <<pen>>, !.amount = Cents(9, 9, 8)],
     [BaseRequest EXCEPT !.items = <<Item(<<"a">>, Cents(0, 1, 0), 3),
                                     Item(<<"b">>, Cents(4, 8, 5), 2)>>],
     [BaseRequest EXCEPT !.items = <<Item(<<"x">>, Big(2), 1)>>, !.amount = Big(2)],
     [BaseRequest EXCEPT !.items = <<Item(<<"x">>, Big(0), 1),
                                     Item(<<"a">>, Cents(1, 0, 0), 1),
                                     Item(<<"b">>, Cents(1, 0, 0), 1)>>,
                         !.amount = Big(2)],
     [BaseRequest EXCEPT !.items = <<Item(<<"x">>, Big(0), 1),
                                     Item(<<"a">>, Cents(1, 0, 0), 1)>>,
                         !.amount = Big(0)]}

\* the arguments an operation is called with
Requests(name) ==
    CASE name = "payments.create" ->
           {[BaseRequest EXCEPT !.amount = a] : a \in OperationAmounts}
      [] name = "orders.create" -> CreateOrderRequests
      [] name \in {"orders.refund", "installments.update_installment",
                   "installments.refund_installment"} ->
           {[BaseRequest EXCEPT !.id = id, !.optional_amount = a] :
               id \in {"x1", ""},
               a \in {NoAmount, Some(Cents(10, 0, 0)), Some(Cents(0, 0, 0))}}
      [] name = "installments.create_plan" ->
           {[BaseRequest EXCEPT !.order_id = o, !.installment_count = n,
                                !.first_installment_date = d] :
               o \in {"o1", ""}, n \in {0, 1, 12, 13}, d \in {"2024-01-15", ""}}
      [] name \in {"payments.list", "orders.list", "installments.list_plans"} ->
           {[BaseRequest EXCEPT !.pagination = p] : p \in Pages}
      [] name \in {"subscriptions.cancel", "health_check"} -> {BaseRequest}
      [] OTHER -> {[BaseRequest EXCEPT !.id = id] : id \in {"x1", ""}}

RECURSIVE joined(_, _)
\* the parts with `sep` between them
joined(parts, sep) ==
    IF parts = <<>> THEN <<>>
    ELSE IF Len(parts) = 1 THEN parts[1]
    ELSE parts[1] \o sep \o joined(Tail(parts), sep)

RECURSIVE sample_tokens(_)
\* the text of a JSON value of a type: the required fields of a struct (its
\* first field when none is required), one element for a Vec
sample_tokens(t) ==
    CASE t.k = "bool" -> <<Lit("true")>>
      [] t.k = "string" -> <<Str("s")>>
      [] t.k = "number" -> <<Num("1")>>
      [] t.k = "value" ->
           <<Punct("{"), Str("status"), Punct(":"), Str("paid"), Punct(","),
             Str("checkout_url"), Punct(":"), Str("u"), Punct("}")>>
      [] t.k = "opt" -> sample_tokens(t.of)
      [] t.k = "vec" -> <<Punct("[")>> \o sample_tokens(t.of) \o <<Punct("]")>>
      [] t.k = "enum" ->
           <<Str(CHOOSE n \in DOMAIN EnumVariants(t.name) : TRUE)>>
      [] t.k = "struct" ->
           LET fields == StructFields(t)
               required == SelectSeq(fields, LAMBDA f : f.type.k # "opt")
               written == IF required = <<>> THEN <<Head(fields)>> ELSE required
               member(f) == <<Str(f.key), Punct(":")>> \o sample_tokens(f.type)
           IN <<Punct("{")>>
                \o joined([i \in 1..Len(written) |-> member(written[i])], <<Punct(",")>>)
                \o <<Punct("}")>>

\* the text of an envelope: each member is the text of its value, or <<>>
\* when the envelope has no such member
Envelope(success, data, message) ==
    LET member(key, text) ==
            IF text = <<>> THEN <<>> ELSE <<<<Str(key), Punct(":")>> \o text>>
    IN <<Punct("{")>>
         \o joined(member("success", success) \o member("data", data)
                      \o member("message", message), <<Punct(",")>>)
         \o <<Punct("}")>>

SuccessTexts == {<<>>, <<Lit("true")>>, <<Lit("false")>>, <<Str("yes")>>}

DataTexts(t) == {<<>>, <<Lit("null")>>, sample_tokens(t), <<Str("oops")>>}

MessageTexts == {<<>>, <<Str("Denied")>>, <<Num("7")>>}

\* the body of the order creation answer without an envelope
UnenvelopedOrder ==
    <<Punct("{"), Str("order_id"), Punct(":"), Str("order_123"), Punct(","),
      Str("reference_id"), Punct(":"), Str("ref_12345"), Punct("}")>>

\* the bodies the server answers an operation with: envelopes, the
\* envelope written as an array, an order without an envelope, an empty
\* body and a body that is no JSON
OperationBodies(t) ==
    {Envelope(s, d, m) : s \in SuccessTexts, d \in DataTexts(t), m \in MessageTexts}
        \cup {<<Punct("["), Lit("true"), Punct(",")>> \o sample_tokens(t)
                 \o <<Punct(","), Str("Denied"), Punct(","), Lit("null"), Punct("]")>>,
              UnenvelopedOrder,
              <<>>,
              <<Junk("<html>")>>}

OperationStatuses == {200, 201, 500}

TestConfig == with_base_url(Config_new("test-api-key"), MockUrl)

InitOperations ==
    /\ op \in OperationNames
    /\ input \in Requests(op)
    /\ ret = NoRet
    /\ origin = NoOrigin
    /\ overflow_checks \in BOOLEAN
    /\ config = NoConfig
    /\ client = Client_of(TestConfig)
    /\ wire = <<>>
    /\ reply = NoReply
    /\ outcome = NoOutcome

\* the operation runs to its call of make_request, or to the return of a
\* failed local check
OperationCall ==
    /\ ret = NoRet
    /\ outcome = NoOutcome
    /\ \E plan \in {operation(op, input)} :
       IF plan.check.kind # "Ok"
       THEN /\ ret' = plan.check
            /\ UNCHANGED <<wire, outcome>>
       ELSE /\ wire' = wire \o transport_call(
                          http_request(client, plan.method, plan.endpoint, plan.has_body))
            /\ outcome' = RequestPending
            /\ ret' = NoRet
    /\ UNCHANGED <<op, input, origin, overflow_checks, config, client, reply>>

\* the server answers; make_request and then the operation return
OperationReturn ==
    /\ outcome.kind = "Pending"
    /\ \E plan \in {operation(op, input)} :
       \E status \in OperationStatuses, body \in OperationBodies(plan.unwrap.type) :
          \E result \in {make_request_result(client, status, body, TRUE)} :
             /\ reply' = [status |-> status, body |-> body, readable |-> TRUE]
             /\ outcome' = result
             /\ ret' = operation_result(plan.unwrap, result)
    /\ UNCHANGED <<op, input, origin, overflow_checks, config, client, wire>>

\* the transport fails; its error is returned through both ?
OperationTransportFails ==
    /\ outcome.kind = "Pending"
    /\ reply' = NoReply
    /\ outcome' = HttpTransportError
    /\ ret' = Propagated(HttpTransportError)
    /\ UNCHANGED <<op, input, origin, overflow_checks, config, client, wire>>

NextOperations ==
    \/ OperationCall
    \/ OperationReturn
    \/ OperationTransportFails

SpecOperations == InitOperations /\ [][NextOperations]_vars

\* the operation has been called
Invoked == ret # NoRet \/ outcome # NoOutcome

FailsLocalCheck(name, request) ==
    \/ /\ name \in {"payments.create", "orders.create"}
       /\ validate_amount(request.amount).kind = "Err"
    \/ /\ name \in {"installments.update_installment", "installments.refund_installment"}
       /\ request.optional_amount.some
       /\ validate_amount(request.optional_amount.value).kind = "Err"
    \/ /\ name \in {"payments.get", "payments.cancel", "orders.get", "orders.cancel",
                    "installments.get_plan", "installments.cancel_plan",
                    "installments.get_plans_by_order"}
       /\ request.id = ""
    \/ /\ name = "installments.create_plan"
       /\ \/ request.installment_count \notin 1..12
          \/ request.first_installment_date = ""

\* C16: when a local check of an operation fails (invalid amount, empty id,
\* installment count outside 1..12 or empty first date), the operation
\* returns ValidationError and no HTTP request has been issued during that
\* invocation.
C16_LocalFailureSendsNothing ==
    /\ (Invoked /\ FailsLocalCheck(op, input)) => IsValidationError(ret)
    /\ IsValidationError(ret) => (wire = <<>> /\ outcome = NoOutcome)

\* create_plan refused 13 installments and sent nothing
C16_Witness ==
    /\ op = "installments.create_plan"
    /\ input.installment_count = 13
    /\ input.order_id = "o1"
    /\ IsValidationError(ret)
    /\ wire = <<>>

\* make_request returned the JSON of an answer to an operation that unwraps
\* the envelope
Unwrapping ==
    /\ op \in OperationNames
    /\ operation(op, input).unwrap.envelope
    /\ reply # NoReply
    /\ outcome.kind = "Ok"

\* the `data` of the response: JNull when it is null or absent
DataOf(response) == json_index(response, "data")

\* the text of the failure: the envelope's message, or the default
FailureText(response, default) ==
    IF json_is_str(json_index(response, "message"))
    THEN json_index(response, "message").str
    ELSE default

\* the response is an object whose `message` is a string, null or absent,
\* which has no `errors`, and whose `data` is null, absent or a value of
\* the operation's type
IsEnvelopeBut(type, response) ==
    /\ response.type = "object"
    /\ json_index(response, "message").type \in {"string", "null"}
    /\ json_index(response, "errors") = JNull
    /\ deserialize(TOption(type), DataOf(response)).ok

\* what the data decides: Ok(data) (for get_status and get_checkout_url: Ok
\* of the string member of the data, InvalidResponse when it has none) when
\* `data` is present, InvalidResponse carrying the envelope's message or
\* the default text when it is null or absent
DataDecides(unwrap, response, result) ==
    LET data == DataOf(response) IN
    IF data = JNull
    THEN result = InvalidResponse(FailureText(response, unwrap.default))
    ELSE IF unwrap.field = "" THEN result = Ok(data)
    ELSE IF json_is_str(json_index(data, unwrap.field))
    THEN result = Ok(json_index(data, unwrap.field))
    ELSE result = InvalidResponse(unwrap.missing)

\* C17: for every operation that unwraps the ApiResponse envelope, the
\* result is Ok(data) whenever the response's `data` is present and
\* Err(InvalidResponse) carrying the envelope's message (or a fixed default
\* text) whenever `data` is null or absent, independently of the value or
\* presence of the `success` flag.
C17_DataDecides ==
    (Unwrapping /\ IsEnvelopeBut(operation(op, input).unwrap.type, outcome.value)) =>
        DataDecides(operation(op, input).unwrap, outcome.value, ret)

\* the part of C17 that holds: with a boolean `success` in the response the
\* data decides, whatever the value of the flag
DataDecidesUnderBooleanFlag ==
    (/\ Unwrapping
     /\ IsEnvelopeBut(operation(op, input).unwrap.type, outcome.value)
     /\ json_index(outcome.value, "success").type = "bool") =>
        DataDecides(operation(op, input).unwrap, outcome.value, ret)

(***************************************************************************)
(* WebhookModule (src/src/modules/webhooks.rs).  A payload is a body of    *)
(* tokens; a secret and a signature are sequences of Chr tokens, the       *)
(* `sha256=` prefix being one of them and a digest one token of its own.   *)
(***************************************************************************)
Chr(c) == [t |-> "chr", v |-> c]

\* the characters of the timestamp texts in use
chars(text) ==
    CASE text = "94" -> <<"9", "4">>
      [] text = "95" -> <<"9", "5">>
      [] text = "100" -> <<"1", "0", "0">>
      [] text = "+100" -> <<"+", "1", "0", "0">>
      [] text = "0100" -> <<"0", "1", "0", "0">>
      [] text = "105" -> <<"1", "0", "5">>
      [] text = "106" -> <<"1", "0", "6">>
      [] text = "-100" -> <<"-", "1", "0", "0">>
      [] text = " 100" -> <<" ", "1", "0", "0">>
      [] text = "" -> <<>>
      [] text = "18446744073709551616" ->
           <<"1", "8", "4", "4", "6", "7", "4", "4", "0", "7", "3", "7", "0", "9",
             "5", "5", "1", "6", "1", "6">>
      [] text = "1970-01-01T00:01:40Z" ->
           <<"1", "9", "7", "0", "-", "0", "1", "-", "0", "1", "T", "0", "0", ":",
             "0", "1", ":", "4", "0", "Z">>
      [] text = "1970-01-01T00:00:00Z" ->
           <<"1", "9", "7", "0", "-", "0", "1", "-", "0", "1", "T", "0", "0", ":",
             "0", "0", ":", "0", "0", "Z">>
      [] text = "2023-01-01T00:00:00Z" ->
           <<"2", "0", "2", "3", "-", "0", "1", "-", "0", "1", "T", "0", "0", ":",
             "0", "0", ":", "0", "0", "Z">>
      [] text = "1970-01-01t00:01:40z" ->
           <<"1", "9", "7", "0", "-", "0", "1", "-", "0", "1", "t", "0", "0", ":",
             "0", "1", ":", "4", "0", "z">>
      [] text = "Tuesday" -> <<"T", "u", "e", "s", "d", "a", "y">>

\* str::contains(c)
contains(s, c) == \E i \in 1..Len(s) : s[i] = c

\* u64::MAX, digit by digit
U64MaxDigits == <<1, 8, 4, 4, 6, 7, 4, 4, 0, 7, 3, 7, 0, 9, 5, 5, 1, 6, 1, 5>>

RECURSIVE digits_gt(_, _)
\* of two digit sequences of one length, the first writes the larger number
digits_gt(a, b) ==
    /\ a # <<>>
    /\ \/ Head(a) > Head(b)
       \/ Head(a) = Head(b) /\ digits_gt(Tail(a), Tail(b))

RECURSIVE without_leading_zeros(_)
without_leading_zeros(ds) ==
    IF ds # <<>> /\ Head(ds) = 0 THEN without_leading_zeros(Tail(ds)) ELSE ds

\* str::parse::<u64>: an optional "+", then one decimal digit or more, the
\* number no larger than u64::MAX
parse_u64(s) ==
    LET body == IF s # <<>> /\ Head(s) = "+" THEN Tail(s) ELSE s
        digits == without_leading_zeros([i \in 1..Len(body) |->
                      IF is_ascii_digit(body[i]) THEN to_digit(body[i]) ELSE 0])
    IN IF body = <<>> \/ ~ all_ascii_digits(body) THEN [ok |-> FALSE, value |-> 0]
       ELSE IF \/ Len(digits) > Len(U64MaxDigits)
               \/ Len(digits) = Len(U64MaxDigits) /\ digits_gt(digits, U64MaxDigits)
       THEN [ok |-> FALSE, value |-> 0]
       ELSE [ok |-> TRUE, value |-> digits_value(digits)]

\* WebhookModule::parse_iso8601_timestamp: the text is not read, the result
\* is the clock's reading
parse_iso8601_timestamp(timestamp, reading) == reading

\* WebhookModule::verify_timestamp; `clock` holds the readings
\* SystemTime::now() returns, in the order they are taken
verify_timestamp(timestamp_str, tolerance_seconds, clock) ==
    LET iso == contains(chars(timestamp_str), "T")
        parsed == parse_u64(chars(timestamp_str))
        webhook_time == IF iso THEN parse_iso8601_timestamp(timestamp_str, clock[1])
                        ELSE parsed.value
        current_time == IF iso THEN clock[2] ELSE clock[1]
        time_diff == IF current_time > webhook_time
                     THEN current_time - webhook_time
                     ELSE webhook_time - current_time
    IN IF ~ iso /\ ~ parsed.ok THEN InvalidResponse("Invalid timestamp format")
       ELSE IF time_diff > tolerance_seconds
       THEN InvalidResponse("Webhook timestamp too old or too far in future")
       ELSE Ok(<<>>)

\* DefaultHasher of a text and {:x} of the hash: one digest for each text
digest(text) == [t |-> "hex", v |-> text]

\* WebhookModule::create_signature
create_signature(payload, secret) == <<digest(secret \o payload)>>

\* a comparison that leaves the prefix on
verify_signature_unstripped(payload, signature0, secret) ==
    signature0 = create_signature(payload, secret)

\* WebhookModule::verify_signature
verify_signature(payload, signature0, secret) ==
    LET signature == IF signature0 # <<>> /\ Head(signature0) = Chr("sha256=")
                     THEN Tail(signature0)
                     ELSE signature0
    IN signature = create_signature(payload, secret)

\* a result that drops the error text
WebhookVerificationResult_silent(is_valid, error) ==
    [is_valid |-> is_valid, error |-> None("")]

\* WebhookVerificationResult
WebhookVerificationResult(is_valid, error) == [is_valid |-> is_valid, error |-> error]

\* serde_json::from_str::<WebhookEvent>(payload)
webhook_event(payload) ==
    LET text == from_str(payload) IN
    IF text.ok THEN deserialize(TStruct("WebhookEvent"), text.value) ELSE DeFailed

\* the variant of the event type of a parsed event
event_variant(event) ==
    EnumVariants("WebhookEventType")[json_index(event, "event_type").str]

\* WebhookModule::parse_webhook
parse_webhook(payload) ==
    LET event == webhook_event(payload) IN
    IF event.ok THEN Ok(event.value)
    ELSE InvalidResponse("Failed to parse webhook payload")

\* a verification that looks at the signature before the timestamp
verify_webhook_signature_first(payload, signature, verification_config, clock) ==
    LET event == webhook_event(payload)
        timestamp == json_index(event.value, "timestamp").str
        timed == IF verification_config.tolerance_seconds.some
                 THEN verify_timestamp(timestamp,
                                       verification_config.tolerance_seconds.value, clock)
                 ELSE Ok(<<>>)
        is_valid == verify_signature(payload, signature, verification_config.secret)
    IN IF ~ event.ok THEN InvalidResponse("Invalid webhook payload")
       ELSE IF ~ is_valid
       THEN Ok([is_valid |-> FALSE, error |-> Some("Invalid signature")])
       ELSE IF timed.kind = "Err"
       THEN Ok([is_valid |-> FALSE,
                error |-> Some("Timestamp validation failed: Invalid response: "
                                  \o timed.message)])
       ELSE Ok([is_valid |-> TRUE, error |-> None("")])

\* WebhookModule::verify_webhook
verify_webhook(payload, signature, verification_config, clock) ==
    LET event == webhook_event(payload)
        timestamp == json_index(event.value, "timestamp").str
        timed == IF verification_config.tolerance_seconds.some
                 THEN verify_timestamp(timestamp, verification_config.tolerance_seconds.value, clock)
                 ELSE Ok(<<>>)
        is_valid == verify_signature(payload, signature, verification_config.secret)
    IN IF ~ event.ok THEN InvalidResponse("Invalid webhook payload")
       ELSE IF timed.kind = "Err"
       THEN Ok(WebhookVerificationResult(FALSE,
                  Some("Timestamp validation failed: Invalid response: " \o timed.message)))
       ELSE Ok(WebhookVerificationResult(is_valid,
                  IF is_valid THEN None("") ELSE Some("Invalid signature")))

\* WebhookModule::create_verification_config
create_verification_config(secret, tolerance_seconds) ==
    [secret |-> secret, tolerance_seconds |-> tolerance_seconds]

(***************************************************************************)
(* Specification of the webhook module: one call of parse_webhook or of    *)
(* verify_webhook, on a payload, a signature and a configuration, with     *)
(* the clock reading 100 s when the call is made.                          *)
(***************************************************************************)
\* the text of an object: the members are <<key, text>> pairs, a member
\* without text is left out
ObjectText(members) ==
    LET written == SelectSeq(members, LAMBDA m : m[2] # <<>>)
    IN <<Punct("{")>>
         \o joined([i \in 1..Len(written) |->
                       <<Str(written[i][1]), Punct(":")>> \o written[i][2]],
                   <<Punct(",")>>)
         \o <<Punct("}")>>

WebhookText(event_type, data, timestamp) ==
    ObjectText(<<<<"event_type", event_type>>, <<"data", data>>,
                 <<"timestamp", timestamp>>>>)

OrderData == ObjectText(<<<<"order_id", <<Str("order_123")>>>>>>)

\* the event types of a payload: the eight of the enum, strings that are
\* none of them, values that are no string, and the variant written as a map
EventTypeTexts ==
    {<<Str(n)>> : n \in DOMAIN EnumVariants("WebhookEventType")}
        \cup {<<Str(n)>> : n \in {"order.created", "OrderCompleted", "ORDER.COMPLETED",
                                  "order.completed ", "other", ""}}
        \cup {<<Num("1")>>, <<Lit("null")>>, <<>>,
              ObjectText(<<<<"order.completed", <<Lit("null")>>>>>>),
              ObjectText(<<<<"order.created", <<Lit("null")>>>>>>)}

TimestampTexts ==
    {"94", "95", "100", "+100", "0100", "105", "106", "-100", " 100", "",
     "18446744073709551616", "1970-01-01T00:01:40Z", "1970-01-01T00:00:00Z",
     "2023-01-01T00:00:00Z", "1970-01-01t00:01:40z", "Tuesday"}

WebhookPayloads ==
    {WebhookText(e, OrderData, <<Str("100")>>) : e \in EventTypeTexts}
        \cup {WebhookText(<<Str("order.completed")>>, OrderData, <<Str(t)>>) :
                 t \in TimestampTexts}
        \cup {WebhookText(<<Str("order.completed")>>, <<>>, <<Str("100")>>),
              WebhookText(<<Str("order.completed")>>, OrderData, <<>>),
              WebhookText(<<Str("order.completed")>>, OrderData, <<Num("100")>>),
              <<Ws(" ")>> \o WebhookText(<<Str("order.completed")>>, OrderData,
                                         <<Str("100")>>),
              <<Junk("event")>>,
              <<>>}

WebhookSecrets == {<<Chr("k"), Chr("1")>>, <<Chr("k"), Chr("2")>>}

\* the payload another signature was made for
OtherPayload == WebhookText(<<Str("order.failed")>>, OrderData, <<Str("100")>>)

\* the signatures a payload comes with: the library's own, bare and with
\* the prefix, that of another secret, that of another payload, that of the
\* payload without its first character under the secret with this character
\* at its end, and none
Signatures(payload, secret) ==
    {create_signature(payload, secret),
     <<Chr("sha256=")>> \o create_signature(payload, secret),
     create_signature(payload, <<Chr("k"), Chr("0")>>),
     create_signature(OtherPayload, secret),
     <<Chr("sha256=")>> \o create_signature(OtherPayload, secret),
     IF payload = <<>> THEN <<>>
     ELSE create_signature(Tail(payload), secret \o <<Head(payload)>>),
     <<>>}

Tolerances == {None(0), Some(0), Some(5)}

\* the readings of the clock during a call: it stands still or moves on by
\* one second
Clocks == {<<100, 100>>, <<100, 101>>}

InitWebhooks ==
    /\ op \in {"parse_webhook", "verify_webhook"}
    /\ \E payload \in WebhookPayloads :
         IF op = "parse_webhook"
         THEN input = [payload |-> payload, signature |-> <<>>,
                       config |-> create_verification_config(<<>>, None(0)),
                       clock |-> <<100, 100>>]
         ELSE \E secret \in WebhookSecrets, tolerance \in Tolerances, clock \in Clocks :
                \E signature \in Signatures(payload, secret) :
                   input = [payload |-> payload, signature |-> signature,
                            config |-> create_verification_config(secret, tolerance),
                            clock |-> clock]
    /\ ret = NoRet
    /\ origin = NoOrigin
    /\ overflow_checks \in BOOLEAN
    /\ ClientIdle

ParseWebhook ==
    /\ op = "parse_webhook"
    /\ ret = NoRet
    /\ ret' = parse_webhook(input.payload)
    /\ UNCHANGED <<op, input, origin, overflow_checks, cliVars>>

VerifyWebhook ==
    /\ op = "verify_webhook"
    /\ ret = NoRet
    /\ ret' = verify_webhook(input.payload, input.signature, input.config, input.clock)
    /\ UNCHANGED <<op, input, origin, overflow_checks, cliVars>>

NextWebhooks ==
    \/ ParseWebhook
    \/ VerifyWebhook

SpecWebhooks == InitWebhooks /\ [][NextWebhooks]_vars

\* the eight event types
KnownEventTypes ==
    {"order.completed", "order.failed", "order.cancelled", "order.refunded",
     "payment.completed", "payment.failed", "installment.completed",
     "installment.failed"}

\* the variant each of them stands for
VariantNamed(event_type) ==
    CASE event_type = "order.completed" -> "OrderCompleted"
      [] event_type = "order.failed" -> "OrderFailed"
      [] event_type = "order.cancelled" -> "OrderCancelled"
      [] event_type = "order.refunded" -> "OrderRefunded"
      [] event_type = "payment.completed" -> "PaymentCompleted"
      [] event_type = "payment.failed" -> "PaymentFailed"
      [] event_type = "installment.completed" -> "InstallmentCompleted"
      [] event_type = "installment.failed" -> "InstallmentFailed"

\* the payload as JSON, JNull when it is none
PayloadJson == IF from_str(input.payload).ok THEN from_str(input.payload).value ELSE JNull

\* the name of the event type of the payload: the string itself, or the one
\* key of an event type written as a map; "" when there is no such name
EventTypeName ==
    LET e == json_index(PayloadJson, "event_type") IN
    IF e.type = "string" THEN e.str
    ELSE IF e.type = "object" /\ Cardinality(DOMAIN e.members) = 1
    THEN CHOOSE n \in DOMAIN e.members : TRUE
    ELSE ""

\* a call of the webhook module has returned
WebhookReturned == op \in {"parse_webhook", "verify_webhook"} /\ ret # NoRet

\* verify_webhook returned a verification result
IsVerification == op = "verify_webhook" /\ ret.kind = "Ok"

Unparsable ==
    \/ PayloadJson.type \notin {"object", "array"}
    \/ /\ PayloadJson.type = "object"
       /\ \/ EventTypeName \notin KnownEventTypes
          \/ json_index(PayloadJson, "data").type \notin {"object", "array"}
          \/ json_index(PayloadJson, "timestamp").type # "string"

\* C19: verify_webhook called with a payload that cannot be parsed into a
\* WebhookEvent reports the failure as a verification result with
\* is_valid = false and an error text; only parse_webhook called on its own
\* surfaces a malformed payload as a hard error (Err).
C19_ParseFailureIsInvalidResult ==
    (WebhookReturned /\ Unparsable) =>
        IF op = "verify_webhook"
        THEN ret.kind = "Ok" /\ ~ ret.value.is_valid /\ ret.value.error.some
        ELSE ret.kind = "Err"

\* the number of seconds since the epoch a timestamp text stands for
TimestampSeconds(text) ==
    CASE text \in {"100", "+100", "0100", "1970-01-01T00:01:40Z"} -> 100
      [] text = "94" -> 94
      [] text = "95" -> 95
      [] text = "105" -> 105
      [] text = "106" -> 106
      [] text = "1970-01-01T00:00:00Z" -> 0
      [] text = "2023-01-01T00:00:00Z" -> 1672531200

\* the timestamps that are ISO-8601 or epoch seconds
WellFormedTimestamps ==
    {"94", "95", "100", "+100", "0100", "105", "106", "1970-01-01T00:01:40Z",
     "1970-01-01T00:00:00Z", "2023-01-01T00:00:00Z"}

Distance(a, b) == IF a > b THEN a - b ELSE b - a

\* the verification failed at the timestamp
TimestampFailed ==
    /\ ~ ret.value.is_valid
    /\ ret.value.error.some
    /\ ret.value.error.value # "Invalid signature"

\* C20: when verify_webhook is given a tolerance t and the webhook's
\* timestamp, in ISO-8601 or epoch-seconds form, differs from the current
\* time by more than t seconds in either direction, the result is
\* is_valid = false with an error text (not an Err); when the difference is
\* at most t the timestamp check passes.
C20_TimestampWithinTolerance ==
    (/\ IsVerification
     /\ input.config.tolerance_seconds.some
     /\ json_index(PayloadJson, "timestamp").str \in WellFormedTimestamps) =>
        LET seconds == TimestampSeconds(json_index(PayloadJson, "timestamp").str)
            t == input.config.tolerance_seconds.value
            readings == {input.clock[i] : i \in 1..Len(input.clock)}
        IN /\ (\A now \in readings : Distance(seconds, now) > t) => TimestampFailed
           /\ (\A now \in readings : Distance(seconds, now) <= t) => ~ TimestampFailed

\* the response the transport handed to make_request, with a body it could
\* read
Answered == outcome.op = "make_request" /\ reply # NoReply /\ reply.readable

\* a body of no characters or of whitespace only
IsBlank(body_text) == \A i \in 1..Len(body_text) : body_text[i].t = "ws"

\* a body that is one JSON value, whitespace around it allowed
IsJson(body_text) ==
    LET val == parse_value(body_text) IN val.ok /\ skip_ws(val.rest) = <<>>

\* C11: when the server answers with a status below 400 and a body that is
\* empty or only whitespace, make_request returns Ok with the JSON null
\* value, never an error.
C11_BlankBodyIsNull ==
    (Answered /\ reply.status < 400 /\ IsBlank(reply.body)) =>
        (outcome.kind = "Ok" /\ outcome.value = JNull)

\* a 200 answer of a space and a line feed was returned as Ok(Null)
C11_Witness ==
    /\ Answered
    /\ reply.status = 200
    /\ reply.body = <<Ws(" "), Ws("\n")>>
    /\ outcome.kind = "Ok"
    /\ outcome.value = JNull

\* the answers C12 is about: the error is a ConfigError whose text holds
\* the raw body
RawBodyError ==
    /\ outcome.kind = "Err"
    /\ outcome.error = "ConfigError"
    /\ outcome.raw = reply.body

\* C12 as stated: when the server answers with a status below 400 and a
\* non-empty body that is not valid JSON, make_request returns a ConfigError
\* whose message contains the raw response body, never Ok.
C12_NonEmptyInvalidJsonIsError ==
    (Answered /\ reply.status < 400 /\ reply.body # <<>> /\ ~ IsJson(reply.body)) =>
        RawBodyError

\* C12, amended: when the server answers with a status below 400 and a body
\* that is neither empty nor only whitespace and is not valid JSON,
\* make_request returns a ConfigError whose message contains the raw
\* response body, never Ok.
C12_NonBlankInvalidJsonIsError ==
    (Answered /\ reply.status < 400 /\ ~ IsBlank(reply.body) /\ ~ IsJson(reply.body)) =>
        RawBodyError

\* a 200 answer of an object followed by junk was returned as a ConfigError
\* carrying the body
C12_Witness ==
    /\ Answered
    /\ reply.status = 200
    /\ reply.body = <<Punct("{"), Str("message"), Punct(":"), Str("late"), Punct("}"), Junk("x")>>
    /\ RawBodyError

\* C13: every HTTP request issued by a client, for each of GET, POST, PUT
\* and DELETE and with or without a body, carries Authorization: Bearer
\* <api_key of the client's Config>, Content-Type: application/json and a
\* User-Agent header that identifies the client.
C13_HeadersOnEveryRequest ==
    \A i \in 1..Len(wire) :
        /\ wire[i].method \in SupportedMethods
        /\ wire[i].headers.Authorization = <<"Bearer ", client.config.api_key>>
        /\ wire[i].headers.Content_Type = "application/json"
        /\ wire[i].headers.User_Agent = "tapsilat-rust/CARGO_PKG_VERSION"

\* a PUT without a body and a DELETE are on the wire, one after the other
C13_Witness ==
    /\ Len(wire) = 2
    /\ wire[1].method = "PUT" /\ wire[1].body = "empty"
    /\ wire[2].method = "DELETE"
    /\ wire[2].headers.Authorization = <<"Bearer ", "test-api-key">>

\* C14: every HTTP request issued by a client is sent with the timeout of
\* the Config the client was constructed with (30 by default, or the value
\* given to with_timeout), the same for every request.
C14_TimeoutOfConfig ==
    \A i \in 1..Len(wire) : wire[i].timeout = SomeTimeout(client.config.timeout)

\* the part of C20 about timestamps in epoch seconds
EpochTimestampWithinTolerance ==
    (\A i \in 1..Len(chars(json_index(PayloadJson, "timestamp").str)) :
        chars(json_index(PayloadJson, "timestamp").str)[i] # "T")
        => C20_TimestampWithinTolerance

\* verify_webhook has returned on a payload that parses into a WebhookEvent
VerifiedParsable ==
    op = "verify_webhook" /\ ret # NoRet /\ webhook_event(input.payload).ok

\* the signature the library computes for the payload and the secret of the
\* call, bare and with the prefix
OwnSignatures ==
    {create_signature(input.payload, input.config.secret),
     <<Chr("sha256=")>> \o create_signature(input.payload, input.config.secret)}

\* the timestamp of the payload is within the tolerance, or there is none
NoToleranceViolation ==
    \/ ~ input.config.tolerance_seconds.some
    \/ /\ json_index(PayloadJson, "timestamp").str \in WellFormedTimestamps
       /\ \A i \in 1..Len(input.clock) :
             Distance(TimestampSeconds(json_index(PayloadJson, "timestamp").str),
                      input.clock[i]) <= input.config.tolerance_seconds.value

\* C21: for every parsable payload p and secret s, verify_webhook(p, sig, s)
\* with no tolerance violation reports is_valid = true and error = None when
\* sig is the signature the library computes for (p, s), given either bare
\* or with the sha256= prefix.
C21_OwnSignatureAccepted ==
    (VerifiedParsable /\ input.signature \in OwnSignatures /\ NoToleranceViolation) =>
        ret = Ok([is_valid |-> TRUE, error |-> None("")])

\* the signature with the prefix was accepted for a timestamp 5 s ahead
\* under a tolerance of 5 s
C21_Witness ==
    /\ VerifiedParsable
    /\ input.signature = <<Chr("sha256=")>>
                            \o create_signature(input.payload, input.config.secret)
    /\ input.config.tolerance_seconds = Some(5)
    /\ json_index(PayloadJson, "timestamp").str = "105"
    /\ ret.kind = "Ok" /\ ret.value.is_valid

\* the payloads that parse into a WebhookEvent
ParsablePayloads ==
    {p \in WebhookPayloads \cup {OtherPayload} \cup
           {Tail(q) : q \in WebhookPayloads \ {<<>>}} : webhook_event(p).ok}

\* the secrets signatures are computed under
SigningSecrets ==
    WebhookSecrets \cup {<<Chr("k"), Chr("0")>>}
        \cup {k \o <<Ws(" ")>> : k \in WebhookSecrets}

\* the signature of the call without its prefix
BareSignature ==
    IF input.signature # <<>> /\ Head(input.signature) = Chr("sha256=")
    THEN Tail(input.signature)
    ELSE input.signature

\* the signature is the valid one of another payload under the secret of the
\* call
SignedForAnotherPayload ==
    \E p \in ParsablePayloads :
       p # input.payload /\ BareSignature = create_signature(p, input.config.secret)

\* the signature was computed under another secret than that of the call
SignedUnderAnotherSecret ==
    \E p \in ParsablePayloads, k \in SigningSecrets :
       k # input.config.secret /\ BareSignature = create_signature(p, k)

\* C22: for every pair of distinct parsable payloads p and p' and every
\* secret s, verify_webhook(p', sig, s) reports is_valid = false when sig is
\* the valid signature of p under s; likewise a signature computed under a
\* different secret is rejected.
C22_ForeignSignatureRejected ==
    (VerifiedParsable /\ (SignedForAnotherPayload \/ SignedUnderAnotherSecret)) =>
        ret.kind = "Ok" /\ ~ ret.value.is_valid

\* the part of C22 that holds when each text has a digest of its own: the
\* signature of another payload under the same secret, and that of the same
\* payload under another secret
ForeignSignatureOfOneChange ==
    (/\ VerifiedParsable
     /\ \/ SignedForAnotherPayload
        \/ \E k \in SigningSecrets :
              /\ k # input.config.secret
              /\ BareSignature = create_signature(input.payload, k)) =>
        ret.kind = "Ok" /\ ~ ret.value.is_valid

\* C28: every WebhookVerificationResult returned by verify_webhook has
\* is_valid = true if and only if error is None; a result with
\* is_valid = false carries an error text naming the failed step (timestamp
\* validation or signature).
C28_ValidIffNoError ==
    IsVerification =>
        /\ ret.value.is_valid <=> ~ ret.value.error.some
        /\ ~ ret.value.is_valid =>
              ret.value.error.value \in
                 {"Invalid signature",
                  "Timestamp validation failed: Invalid response: Invalid timestamp format",
                  "Timestamp validation failed: Invalid response: Webhook timestamp too old or too far in future"}

\* a verification failed at the timestamp and says so
C28_Witness ==
    /\ IsVerification
    /\ ~ ret.value.is_valid
    /\ ret.value.error =
          Some("Timestamp validation failed: Invalid response: Webhook timestamp too old or too far in future")

\* the timestamp of the payload fails the check: it is neither ISO-8601 nor
\* epoch seconds, or it is epoch seconds further from the clock than the
\* tolerance
TimestampRefused ==
    LET text == json_index(PayloadJson, "timestamp").str IN
    \/ text \in {"-100", " 100", "", "18446744073709551616", "1970-01-01t00:01:40z"}
    \/ /\ text \in {"94", "95", "100", "+100", "0100", "105", "106"}
       /\ Distance(TimestampSeconds(text), input.clock[1])
             > input.config.tolerance_seconds.value

\* C29: verify_webhook checks in the order parse, timestamp, signature: with
\* a tolerance set and a timestamp that fails the timestamp check the result
\* is the timestamp failure whether or not the signature is correct; with
\* tolerance None the timestamp is never examined, so a malformed or
\* arbitrarily old timestamp does not change the outcome of verification.
C29_ParseTimestampSignature ==
    /\ (op = "verify_webhook" /\ ret # NoRet /\ ~ webhook_event(input.payload).ok) =>
          ret.kind = "Err"
    /\ (VerifiedParsable /\ input.config.tolerance_seconds.some /\ TimestampRefused) =>
          ret.kind = "Ok" /\ TimestampFailed
    /\ (VerifiedParsable /\ ~ input.config.tolerance_seconds.some) =>
          ret = Ok(IF BareSignature = create_signature(input.payload, input.config.secret)
                   THEN [is_valid |-> TRUE, error |-> None("")]
                   ELSE [is_valid |-> FALSE, error |-> Some("Invalid signature")])

\* a wrong signature on a payload whose timestamp is 6 s ahead under a
\* tolerance of 5 s: the result is the timestamp failure
C29_Witness ==
    /\ VerifiedParsable
    /\ input.config.tolerance_seconds = Some(5)
    /\ json_index(PayloadJson, "timestamp").str = "106"
    /\ input.signature = <<>>
    /\ ret.kind = "Ok" /\ TimestampFailed

\* C30: validate_gsm is idempotent on its own output: every Ok value it
\* returns is a 12-character string "90" followed by 10 digits of which the
\* first is 5, and applying validate_gsm to that value returns Ok with the
\* same string.
C30_GsmIdempotent ==
    (op = "validate_gsm" /\ ret # NoRet) =>
        /\ ret.kind = "Ok" =>
              /\ Len(ret.value) = 12
              /\ SubSeq(ret.value, 1, 2) = <<"9", "0">>
              /\ IsNationalNumber(SubSeq(ret.value, 3, 12))
        /\ origin # NoOrigin => ret = Ok(input)

\* the value returned for +90 5ab1234567 was validated again and came back
C30_Witness ==
    /\ op = "validate_gsm"
    /\ origin # NoOrigin
    /\ SubSeq(origin, 1, 3) = <<"+", "9", "0">>
    /\ Len(input) = 12
    /\ ret = Ok(input)

RECURSIVE ItemsTotal(_)
\* the sum over the items of price times quantity, as a number: its parts
\* are added without rounding
ItemsTotal(items) ==
    IF items = <<>> THEN [class |-> "finite", big |-> 0, hi |-> 0, lo |-> 0]
    ELSE LET price == amount_units(Head(items).price)
             q == Head(items).quantity
             rest == ItemsTotal(Tail(items))
             lo == price.lo * q + rest.lo
         IN [class |-> "finite",
             big |-> price.big * q + rest.big,
             hi |-> price.hi * q + rest.hi + lo \div Pow10(AmountScale - 6),
             lo |-> lo % Pow10(AmountScale - 6)]

\* orders().create has been called with an order that reaches the
\* cross-check: its amount, its buyer and its items pass their checks and
\* its amounts are numbers
CrossChecked ==
    /\ op = "orders.create"
    /\ Invoked
    /\ validate_amount(input.amount).kind = "Ok"
    /\ input.buyer.some =>
          /\ validate_email(input.buyer.value.email).kind = "Ok"
          /\ validate_gsm(input.buyer.value.gsm).kind = "Ok"
    /\ input.items # <<>>
    /\ validate_items(input.items).kind = "Ok"
    /\ input.amount.class \in {"finite", "big"}
    /\ \A i \in 1..Len(input.items) : input.items[i].price.class \in {"finite", "big"}

\* the order amount and the sum of the items differ by more than 0.01
DifferByMoreThanACent ==
    LET a == amount_units(input.amount)
        total == ItemsTotal(input.items)
        cent == [class |-> "finite", big |-> 0, hi |-> Pow10(4), lo |-> 0]
    IN \/ a.big # total.big
       \/ units_gt(a, total) /\ units_gt(units_minus(a, total), cent)
       \/ units_gt(total, a) /\ units_gt(units_minus(total, a), cent)

\* C23: order creation passes the amount cross-check when the order amount
\* equals the sum over items of price x quantity, and fails with a
\* ValidationError whose message contains both the order amount and the
\* computed items total when they differ by more than 0.01.
C23_AmountCrossCheck ==
    CrossChecked =>
        /\ amount_units(input.amount) = ItemsTotal(input.items)
              => ~ IsValidationError(ret)
        /\ DifferByMoreThanACent =>
              /\ IsValidationError(ret)
              /\ ret.message = "Order amount ({:.2}) doesn't match items total ({:.2})"
              /\ ret.value = <<units_text(amount_units(input.amount)),
                               units_text(calculated_total(input.items))>>

\* the part of C23 about amounts below 2^53
AmountCrossCheckBelowTwoPow53 ==
    (/\ CrossChecked
     /\ input.amount.class = "finite"
     /\ \A i \in 1..Len(input.items) : input.items[i].price.class = "finite")
        => C23_AmountCrossCheck

\* the list operations that take PaginationParams, and their paths
ListPath(name) ==
    CASE name = "payments.list" -> <<"payments">>
      [] name = "orders.list" -> <<"orders">>
      [] name = "installments.list_plans" -> <<"installments", "/", "plans">>

\* the query string the pagination stands for
ExpectedQuery(pagination) ==
    LET page == pagination.value.page
        per_page == pagination.value.per_page
    IN IF ~ pagination.some \/ (~ page.some /\ ~ per_page.some) THEN <<>>
       ELSE IF page.some /\ per_page.some
       THEN <<"?", "page=", ToString(page.value), "&", "per_page=",
              ToString(per_page.value)>>
       ELSE IF page.some THEN <<"?", "page=", ToString(page.value)>>
       ELSE <<"?", "per_page=", ToString(per_page.value)>>

\* the answer 200 with one record and a pagination block in the envelope
PageOfOneRecord(t) == Envelope(<<Lit("true")>>, sample_tokens(TPaginated(t)), <<>>)

\* C24: a list operation given PaginationParams renders page=<p> when page
\* is present and per_page=<n> when per_page is present, page first, joined
\* by & after a single ?, and appends nothing when pagination is None or
\* both fields are None; for page=1, per_page=10 it requests
\* installments/plans?page=1&per_page=10 and returns the response's data
\* list and pagination block unchanged (one record, total 1, total_pages 1).
C24_PaginationQuery ==
    (op \in {"payments.list", "orders.list", "installments.list_plans"} /\ Invoked) =>
        /\ Len(wire) = 1
        /\ wire[1].method = "GET"
        /\ wire[1].url = <<"http:", "/", "/", "127.0.0.1:1234", "/">>
                            \o ListPath(op) \o ExpectedQuery(input.pagination)
        /\ (/\ op = "installments.list_plans"
            /\ input.pagination = Some([page |-> Some(1), per_page |-> Some(10)])) =>
              /\ wire[1].url = <<"http:", "/", "/", "127.0.0.1:1234", "/",
                                 "installments", "/", "plans",
                                 "?", "page=", "1", "&", "per_page=", "10">>
              /\ (/\ reply # NoReply
                  /\ reply.status = 200
                  /\ reply.body = PageOfOneRecord(TStruct("InstallmentPlan"))) =>
                    /\ ret = Ok(json_index(from_str(reply.body).value, "data"))
                    /\ Len(json_index(ret.value, "data").items) = 1
                    /\ json_index(json_index(ret.value, "pagination"), "total")
                          = from_str(<<Num("1")>>).value
                    /\ json_index(json_index(ret.value, "pagination"), "total_pages")
                          = from_str(<<Num("1")>>).value

\* list_plans with page 1 and per_page 10 was answered 200 with one record
\* and returned it
C24_Witness ==
    /\ op = "installments.list_plans"
    /\ input.pagination = Some([page |-> Some(1), per_page |-> Some(10)])
    /\ reply # NoReply
    /\ reply.status = 200
    /\ reply.body = PageOfOneRecord(TStruct("InstallmentPlan"))
    /\ ret.kind = "Ok"
    /\ Len(json_index(ret.value, "data").items) = 1

\* orders().create passed its validation and handed a request to the transport
OrderCreateSent ==
    /\ op = "orders.create"
    /\ Invoked
    /\ ~ IsValidationError(ret)

\* the server answered the order creation 201 with the order, no envelope
AnsweredUnenveloped ==
    /\ reply # NoReply
    /\ reply.status = 201
    /\ reply.body = UnenvelopedOrder

\* C27: orders().create with a request that passes validation sends one
\* POST to the path /order/create and, when the server answers 201 with
\* the un-enveloped body {"order_id": X, "reference_id": Y}, returns Ok
\* with order_id = Some(X) and reference_id = Some(Y).
C27_OrderCreate ==
    OrderCreateSent =>
        /\ Len(wire) = 1
        /\ wire[1].method = "POST"
        /\ wire[1].url = <<"http:", "/", "/", "127.0.0.1:1234", "/",
                           "order", "/", "create">>
        /\ AnsweredUnenveloped =>
              /\ ret.kind = "Ok"
              /\ json_index(ret.value, "order_id") = JString("order_123")
              /\ json_index(ret.value, "reference_id") = JString("ref_12345")

\* the part of C27 about the answer alone, whatever the path
OrderCreateAnswer ==
    (OrderCreateSent /\ AnsweredUnenveloped) =>
        /\ ret.kind = "Ok"
        /\ json_index(ret.value, "order_id") = JString("order_123")
        /\ json_index(ret.value, "reference_id") = JString("ref_12345")

\* what the code does: one POST to /orders, and the answer without an
\* envelope is refused for its missing field
OrderCreateAsCoded ==
    OrderCreateSent =>
        /\ Len(wire) = 1
        /\ wire[1].method = "POST"
        /\ wire[1].url = <<"http:", "/", "/", "127.0.0.1:1234", "/", "orders">>
        /\ AnsweredUnenveloped => ret.kind = "Err"

(***************************************************************************)
(* Specification of the installment statuses: update_installment,          *)
(* refund_installment and cancel_plan are called one after the other for   *)
(* one installment of one plan, and the server answers each call with the  *)
(* installment in some status.  The module keeps nothing between the       *)
(* calls; ret is what the last completed call returned.                    *)
(***************************************************************************)
MaxStatusCalls == 3

StatusOperations ==
    {"installments.update_installment", "installments.refund_installment",
     "installments.cancel_plan"}

StatusRequests(name) ==
    IF name = "installments.cancel_plan"
    THEN {[BaseRequest EXCEPT !.id = id] : id \in {"p1", ""}}
    ELSE {[BaseRequest EXCEPT !.id = "i1", !.optional_amount = a] :
             a \in {NoAmount, Some(Cents(0, 0, 0))}}

InstallmentStatuses == DOMAIN EnumVariants("InstallmentStatus")

\* the installment, as the server writes it
InstallmentText(status) ==
    <<Punct("{"), Str("id"), Punct(":"), Str("i1"), Punct(","),
      Str("installment_number"), Punct(":"), Num("1"), Punct(","),
      Str("amount"), Punct(":"), Num("50"), Punct(","),
      Str("due_date"), Punct(":"), Str("2024-01-15"), Punct(","),
      Str("status"), Punct(":"), Str(status), Punct("}")>>

\* the plan with its one installment
InstallmentPlanText(status) ==
    <<Punct("{"), Str("id"), Punct(":"), Str("p1"), Punct(","),
      Str("order_id"), Punct(":"), Str("o1"), Punct(","),
      Str("total_installments"), Punct(":"), Num("1"), Punct(","),
      Str("installment_amount"), Punct(":"), Num("50"), Punct(","),
      Str("currency"), Punct(":"), Str("TRY"), Punct(","),
      Str("status"), Punct(":"), Str("cancelled"), Punct(","),
      Str("installments"), Punct(":"), Punct("[")>>
        \o InstallmentText(status)
        \o <<Punct("]"), Punct(","),
             Str("created_at"), Punct(":"), Str("c"), Punct(","),
             Str("updated_at"), Punct(":"), Str("u"), Punct("}")>>

\* the answers of the server: the installment in any status, or a refusal
StatusAnswers(name) ==
    {Envelope(<<Lit("true")>>,
              IF name = "installments.cancel_plan"
              THEN InstallmentPlanText(status) ELSE InstallmentText(status),
              <<>>) : status \in InstallmentStatuses}
        \cup {Envelope(<<Lit("false")>>, <<>>, <<Str("Denied")>>)}

InitStatus ==
    /\ op = "none"
    /\ input = BaseRequest
    /\ ret = NoRet
    /\ origin = NoOrigin
    /\ overflow_checks = FALSE
    /\ config = NoConfig
    /\ client = Client_of(TestConfig)
    /\ wire = <<>>
    /\ reply = NoReply
    /\ outcome = NoOutcome

\* one of the three operations is called: it runs to its call of
\* make_request, or returns the error of its local checks
StatusCall ==
    /\ outcome.kind # "Pending"
    /\ Len(wire) < MaxStatusCalls
    /\ \E name \in StatusOperations :
       \E request \in StatusRequests(name) :
       \E plan \in {operation(name, request)} :
          /\ op' = name
          /\ input' = request
          /\ IF plan.check.kind # "Ok"
             THEN /\ ret' = plan.check
                  /\ UNCHANGED <<wire, outcome>>
             ELSE /\ wire' = wire \o transport_call(
                                http_request(client, plan.method, plan.endpoint,
                                             plan.has_body))
                  /\ outcome' = RequestPending
                  /\ UNCHANGED ret
    /\ UNCHANGED <<origin, overflow_checks, config, client, reply>>

\* the server answers; make_request and then the operation return
StatusReturn ==
    /\ outcome.kind = "Pending"
    /\ \E plan \in {operation(op, input)} :
       \E status \in {200, 500}, body \in StatusAnswers(op) :
          \E result \in {make_request_result(client, status, body, TRUE)} :
             /\ reply' = [status |-> status, body |-> body, readable |-> TRUE]
             /\ outcome' = result
             /\ ret' = operation_result(plan.unwrap, result)
    /\ UNCHANGED <<op, input, origin, overflow_checks, config, client, wire>>

NextStatus == StatusCall \/ StatusReturn

SpecStatus == InitStatus /\ [][NextStatus]_vars

\* a call returned the installment, alone or in its plan
ReturnsInstallment(r) ==
    /\ r.kind = "Ok"
    /\ r.value # <<>>

\* the installment a call returned
ReturnedInstallment(r) ==
    IF json_index(r.value, "installments") = JNull THEN r.value
    ELSE json_index(r.value, "installments").items[1]

StatusOf(r) == json_index(ReturnedInstallment(r), "status").str

\* the transitions of the installment's state machine
AllowedTransitions ==
    {<<"pending", "paid">>, <<"pending", "overdue">>, <<"pending", "cancelled">>,
     <<"pending", "refunded">>, <<"overdue", "paid">>}

\* C25: an installment's status changes only along Pending -> Paid,
\* Pending -> Overdue, Pending -> Cancelled, Pending -> Refunded and
\* Overdue -> Paid: once an installment is Paid, Cancelled or Refunded its
\* status never changes again, under any sequence of update_installment,
\* refund_installment and cancel_plan operations and the statuses they
\* return.
C25_StatusTransitions ==
    [][(ReturnsInstallment(ret) /\ ReturnsInstallment(ret')) =>
          \/ StatusOf(ret') = StatusOf(ret)
          \/ <<StatusOf(ret), StatusOf(ret')>> \in AllowedTransitions]_vars

\* what the code does: a call answered 200 with the installment returns it
\* in the status the server wrote, whatever was returned before
StatusReturnedAsAnswered ==
    (/\ outcome.kind = "Ok"
     /\ ~ IsValidationError(ret)
     /\ reply.status = 200
     /\ \E status \in InstallmentStatuses :
           reply.body = Envelope(<<Lit("true")>>,
                                 IF op = "installments.cancel_plan"
                                 THEN InstallmentPlanText(status)
                                 ELSE InstallmentText(status), <<>>)) =>
        /\ ReturnsInstallment(ret)
        /\ reply.body = Envelope(<<Lit("true")>>,
                                 IF op = "installments.cancel_plan"
                                 THEN InstallmentPlanText(StatusOf(ret))
                                 ELSE InstallmentText(StatusOf(ret)), <<>>)

\* the statuses returned are the five of InstallmentStatus
StatusIsOneOfFive == ReturnsInstallment(ret) => StatusOf(ret) \in InstallmentStatuses

(***************************************************************************)
(* Specification of concurrent calls: threads share one TapsilatClient by  *)
(* reference and call its operations, directly or through an accessor.     *)
(* Every public method takes &self; an accessor clones the client into the *)
(* module it returns, and the module builds and sends the request from its *)
(* clone.  op, input, ret, reply and outcome are kept per thread; outcome  *)
(* holds the thread's position, its module's client and its request.       *)
(***************************************************************************)
MaxSent == 2

Threads == {1, 2}

OtherUrl == <<"https:", "/", "/", "api.example", "/", "v2", "/", "/">>

ConcurrentConfigs ==
    {TestConfig, with_timeout(with_base_url(Config_new("key-2"), OtherUrl), 5)}

\* the operations the threads call: three through accessors, one direct
ConcurrentOperations == {"orders.get", "payments.cancel", "installments.get_plan", "get_order"}

\* a direct method routes to its module: get_order is orders().get
Routed(name) == IF name = "get_order" THEN "orders.get" ELSE name

NoRequest == http_request(NoClient, "GET", <<>>, FALSE)

Idle == [pc |-> "idle", module |-> NoClient, request |-> NoRequest]

\* a mutation of TapsilatClient_clone: the clone is built from the API key
\* alone, with the default base URL and timeout
TapsilatClient_clone_of_key(self) == Client_of(Config_new(self.config.api_key))

\* #[derive(Clone)]: the clone has the fields of the client
TapsilatClient_clone(self) == self

ConcurrentAnswers(t) == {Envelope(<<Lit("true")>>, sample_tokens(t), <<>>), <<>>}

InitConcurrent ==
    /\ op = [t \in Threads |-> "none"]
    /\ input = [t \in Threads |-> BaseRequest]
    /\ ret = [t \in Threads |-> NoRet]
    /\ origin = NoOrigin
    /\ overflow_checks = FALSE
    /\ config \in ConcurrentConfigs
    /\ client = Client_of(config)
    /\ wire = <<>>
    /\ reply = [t \in Threads |-> NoReply]
    /\ outcome = [t \in Threads |-> Idle]

\* the requests built and not yet sent
InFlight == {t \in Threads : outcome[t].pc \in {"cloned", "built"}}

\* a thread calls an operation: the accessor clones the client into the
\* module, and the operation makes its local checks
ConcurrentCall(t) ==
    /\ outcome[t].pc = "idle"
    /\ Len(wire) + Cardinality(InFlight) < MaxSent
    /\ \E name \in ConcurrentOperations :
       \E request \in Requests(Routed(name)) :
       \E plan \in {operation(Routed(name), request)} :
          /\ op' = [op EXCEPT ![t] = name]
          /\ input' = [input EXCEPT ![t] = request]
          /\ reply' = [reply EXCEPT ![t] = NoReply]
          /\ IF plan.check.kind # "Ok"
             THEN /\ ret' = [ret EXCEPT ![t] = plan.check]
                  /\ outcome' = [outcome EXCEPT ![t] = Idle]
             ELSE /\ ret' = [ret EXCEPT ![t] = NoRet]
                  /\ outcome' = [outcome EXCEPT ![t] =
                                   [pc |-> "cloned",
                                    module |-> TapsilatClient_clone(client),
                                    request |-> NoRequest]]
    /\ UNCHANGED <<origin, overflow_checks, config, client, wire>>

\* make_request of the module's client builds the request
ConcurrentBuild(t) ==
    /\ outcome[t].pc = "cloned"
    /\ \E plan \in {operation(Routed(op[t]), input[t])} :
          outcome' = [outcome EXCEPT ![t].pc = "built",
                                     ![t].request =
                                         http_request(outcome[t].module, plan.method,
                                                      plan.endpoint, plan.has_body)]
    /\ UNCHANGED <<op, input, ret, origin, overflow_checks, config, client, wire, reply>>

\* the request goes to the transport
ConcurrentSend(t) ==
    /\ outcome[t].pc = "built"
    /\ wire' = wire \o transport_call(outcome[t].request)
    /\ outcome' = [outcome EXCEPT ![t].pc = "sent"]
    /\ UNCHANGED <<op, input, ret, origin, overflow_checks, config, client, reply>>

\* the server answers the thread's request and the operation returns
ConcurrentReturn(t) ==
    /\ outcome[t].pc = "sent"
    /\ \E plan \in {operation(Routed(op[t]), input[t])} :
       \E status \in {200, 500}, body \in ConcurrentAnswers(plan.unwrap.type) :
       \E result \in {make_request_result(outcome[t].module, status, body, TRUE)} :
          /\ reply' = [reply EXCEPT ![t] = [status |-> status, body |-> body,
                                            readable |-> TRUE]]
          /\ ret' = [ret EXCEPT ![t] = operation_result(plan.unwrap, result)]
          /\ outcome' = [outcome EXCEPT ![t] = Idle]
    /\ UNCHANGED <<op, input, origin, overflow_checks, config, client, wire>>

NextConcurrent ==
    \E t \in Threads :
        \/ ConcurrentCall(t)
        \/ ConcurrentBuild(t)
        \/ ConcurrentSend(t)
        \/ ConcurrentReturn(t)

SpecConcurrent == InitConcurrent /\ [][NextConcurrent]_vars

\* the request of a call, from the configuration given at construction and
\* the call's own arguments
RequestOf(cfg, name, request) ==
    LET path ==
            CASE name \in {"orders.get", "get_order"} -> <<"orders", "/", request.id>>
              [] name = "payments.cancel" -> <<"payments", "/", request.id, "/", "cancel">>
              [] name = "installments.get_plan" ->
                   <<"installments", "/", "plans", "/", request.id>>
    IN [method |-> IF name = "payments.cancel" THEN "POST" ELSE "GET",
        url |-> trim_end_slashes(cfg.base_url) \o <<"/">> \o path,
        headers |-> request_headers(Client_of(cfg)),
        body |-> request_body(IF name = "payments.cancel" THEN "POST" ELSE "GET", FALSE),
        timeout |-> request_timeout(Client_of(cfg))]

\* C26: no public operation modifies client-level state: after any
\* interleaving of concurrent calls on one TapsilatClient (direct methods
\* and the accessors, which work on clones), the client's api_key, base_url
\* and timeout equal the values given at construction, and the request
\* built by each call depends only on that configuration and the call's own
\* arguments.
C26_ClientStateUntouched ==
    /\ client.config.api_key = config.api_key
    /\ client.config.base_url = config.base_url
    /\ client.config.timeout = config.timeout
    /\ \A t \in Threads :
          outcome[t].pc \in {"built", "sent"} =>
              outcome[t].request = RequestOf(config, op[t], input[t])
    /\ \A i \in 1..Len(wire) :
          \E name \in ConcurrentOperations :
          \E request \in Requests(Routed(name)) :
              wire[i] = RequestOf(config, name, request)

\* two calls of different operations are under way at once on a client
\* with its own base URL and timeout, one sent and one built
C26_Witness ==
    /\ config # TestConfig
    /\ outcome[1].pc = "sent"
    /\ outcome[2].pc = "built"
    /\ op[1] # op[2]
    /\ Len(wire) = 1

====
